---------------------------- MODULE Spec2Model ----------------------------
(***************************************************************************)
(* Model of consumption-analyzer.js: the flow estimators                   *)
(* (analyzeJarForFlows, estimateBasedOnAppDetails), the message estimator  *)
(* (estimateMessageVolume), the report folds and the orchestration loop    *)
(* analyzeBillableConsumption.                                             *)
(*                                                                         *)
(* Conventions.                                                            *)
(*  - JavaScript null/undefined/'' of a string field is the empty string.  *)
(*  - An absent object is the record Null.                                 *)
(*  - NaN is the integer NaN (outside Nat); arithmetic goes through Plus.  *)
(*  - Non-integer numbers are kept exact as integers in a stated unit:     *)
(*    a worker weight in hundredths, a CPU average in eighths, an          *)
(*    unrounded daily estimate as a fraction [num, den].                   *)
(***************************************************************************)
EXTENDS Integers, Sequences, FiniteSets, TLC

(***************************************************************************)
(* Bounds of the model.                                                    *)
(***************************************************************************)
MaxFlowMetrics == 3      \* longest flow-level metrics list drawn
MaxConfigFiles == 1      \* most Mule configuration files found in one JAR
MaxSubOrganizations == 2 \* most sub-organizations drawn under one root
MaxTotalApps == 2        \* most applications listed in one run

(***************************************************************************)
(* Values.                                                                 *)
(***************************************************************************)
Null == [null |-> TRUE]

NaN == -1

IsNaN(x) == x = NaN

\* a + b of JavaScript numbers: NaN absorbs
Plus(a, b) == IF IsNaN(a) \/ IsNaN(b) THEN NaN ELSE a + b

\* x || 0 for a number x: NaN and 0 are falsy
OrZero(x) == IF IsNaN(x) THEN 0 ELSE x

Min(a, b) == IF a <= b THEN a ELSE b

Max(a, b) == IF a >= b THEN a ELSE b

\* Math.round(num / den) for num >= 0, den > 0: nearest integer, ties up
Round(num, den) == (2 * num + den) \div (2 * den)

\* String.prototype.includes
Includes(s, p) ==
  \E i \in 1..(Len(s) - Len(p) + 1) : SubSeq(s, i, i + Len(p) - 1) = p

LowerChar(c) ==
  CASE c = "A" -> "a" [] c = "B" -> "b" [] c = "C" -> "c" [] c = "D" -> "d"
    [] c = "E" -> "e" [] c = "F" -> "f" [] c = "G" -> "g" [] c = "H" -> "h"
    [] c = "I" -> "i" [] c = "J" -> "j" [] c = "K" -> "k" [] c = "L" -> "l"
    [] c = "M" -> "m" [] c = "N" -> "n" [] c = "O" -> "o" [] c = "P" -> "p"
    [] c = "Q" -> "q" [] c = "R" -> "r" [] c = "S" -> "s" [] c = "T" -> "t"
    [] c = "U" -> "u" [] c = "V" -> "v" [] c = "W" -> "w" [] c = "X" -> "x"
    [] c = "Y" -> "y" [] c = "Z" -> "z" [] OTHER -> c

\* String.prototype.toLowerCase
RECURSIVE toLowerCase(_)
toLowerCase(s) ==
  IF Len(s) = 0 THEN ""
  ELSE LowerChar(SubSeq(s, 1, 1)) \o toLowerCase(SubSeq(s, 2, Len(s)))

(***************************************************************************)
(* estimateBasedOnAppDetails(appDetails).                                  *)
(* appDetails is Null or [domain, fileName, versionId, hasWorkers, amount, *)
(* weightC]: workers.amount as an integer, workers.type.weight in          *)
(* hundredths (weightC = 10 is the weight 0.1).                            *)
(***************************************************************************)
\* Faulty variant of ApiPatternFileName: PAPI is tested before EAPI
ApiPatternFileName_papiFirst(fileName) ==
  IF Includes(fileName, "papi") \/ Includes(fileName, "process-api")
    THEN [flows |-> 7, source |-> "PAPI filename pattern"]
  ELSE IF Includes(fileName, "eapi") \/ Includes(fileName, "experience-api")
    THEN [flows |-> 5, source |-> "EAPI filename pattern"]
  ELSE IF Includes(fileName, "sapi") \/ Includes(fileName, "system-api")
    THEN [flows |-> 3, source |-> "SAPI filename pattern"]
  ELSE [flows |-> 2, source |-> "Application metadata"]

ApiPatternFileName(fileName) ==
  IF Includes(fileName, "eapi") \/ Includes(fileName, "experience-api")
    THEN [flows |-> 5, source |-> "EAPI filename pattern"]
  ELSE IF Includes(fileName, "papi") \/ Includes(fileName, "process-api")
    THEN [flows |-> 7, source |-> "PAPI filename pattern"]
  ELSE IF Includes(fileName, "sapi") \/ Includes(fileName, "system-api")
    THEN [flows |-> 3, source |-> "SAPI filename pattern"]
  ELSE [flows |-> 2, source |-> "Application metadata"]

ApiPatternDomain(domain) ==
  IF Includes(domain, "eapi") \/ Includes(domain, "experience")
    THEN [flows |-> 5, source |-> "EAPI domain pattern"]
  ELSE IF Includes(domain, "papi") \/ Includes(domain, "process")
    THEN [flows |-> 7, source |-> "PAPI domain pattern"]
  ELSE IF Includes(domain, "sapi") \/ Includes(domain, "system")
    THEN [flows |-> 3, source |-> "SAPI domain pattern"]
  ELSE [flows |-> 2, source |-> "Application metadata"]

\* Faulty variant of IntegrationPattern: every matching integration adds
\* its bonus
IntegrationPattern_additive(name, e) ==
  LET e1 == IF Includes(name, "salesforce") \/ Includes(name, "sfdc")
              THEN [flows |-> e.flows + 2,
                    source |-> e.source \o " + Salesforce pattern"]
              ELSE e
      e2 == IF Includes(name, "onbase") \/ Includes(name, "database")
              THEN [flows |-> e1.flows + 1,
                    source |-> e1.source \o " + Database pattern"]
              ELSE e1
  IN IF Includes(name, "splunk")
       THEN [flows |-> e2.flows + 1,
             source |-> e2.source \o " + Splunk pattern"]
       ELSE e2

IntegrationPattern(name, e) ==
  IF Includes(name, "salesforce") \/ Includes(name, "sfdc")
    THEN [flows |-> e.flows + 2, source |-> e.source \o " + Salesforce pattern"]
  ELSE IF Includes(name, "onbase") \/ Includes(name, "database")
    THEN [flows |-> e.flows + 1, source |-> e.source \o " + Database pattern"]
  ELSE IF Includes(name, "splunk")
    THEN [flows |-> e.flows + 1, source |-> e.source \o " + Splunk pattern"]
  ELSE e

WorkerHints(d, e) ==
  LET e1 == IF d.hasWorkers /\ d.amount > 1
              THEN [flows |-> e.flows + Min(3, d.amount - 1),
                    source |-> e.source \o " + Multiple workers"]
              ELSE e
  IN IF d.hasWorkers /\ d.weightC > 10
       THEN [flows |-> e1.flows + Min(3, Round(d.weightC, 10)),
             source |-> e1.source \o " + Larger worker size"]
       ELSE e1

CapFlows(n) == Max(1, Min(20, n))

\* Faulty variant of estimateBasedOnAppDetails: estimates that matched a
\* naming or worker pattern are labelled 'medium'
estimateBasedOnAppDetails_mediumForPatterns(appDetails) ==
  IF appDetails = Null
    THEN [estimatedFlows |-> 2, confidence |-> "low",
          source |-> "Default estimate (no metadata)"]
  ELSE
    LET named ==
          IF appDetails.fileName # ""
            THEN IntegrationPattern(toLowerCase(appDetails.fileName),
                   ApiPatternFileName(toLowerCase(appDetails.fileName)))
          ELSE IF appDetails.domain # ""
            THEN IntegrationPattern(toLowerCase(appDetails.domain),
                   ApiPatternDomain(toLowerCase(appDetails.domain)))
          ELSE [flows |-> 2, source |-> "Application metadata"]
        e == WorkerHints(appDetails, named)
    IN [estimatedFlows |-> CapFlows(e.flows),
        confidence |-> IF e.source = "Application metadata" THEN "low"
                       ELSE "medium",
        source |-> e.source]

\* Faulty variant of estimateBasedOnAppDetails: without a record the base
\* values are returned under the label of the metadata estimate
estimateBasedOnAppDetails_noEarlyReturn(appDetails) ==
  IF appDetails = Null
    THEN [estimatedFlows |-> 2, confidence |-> "low",
          source |-> "Application metadata"]
  ELSE
    LET named ==
          IF appDetails.fileName # ""
            THEN IntegrationPattern(toLowerCase(appDetails.fileName),
                   ApiPatternFileName(toLowerCase(appDetails.fileName)))
          ELSE IF appDetails.domain # ""
            THEN IntegrationPattern(toLowerCase(appDetails.domain),
                   ApiPatternDomain(toLowerCase(appDetails.domain)))
          ELSE [flows |-> 2, source |-> "Application metadata"]
        e == WorkerHints(appDetails, named)
    IN [estimatedFlows |-> CapFlows(e.flows), confidence |-> "low",
        source |-> e.source]

\* lines 662-757
estimateBasedOnAppDetails(appDetails) ==
  IF appDetails = Null
    THEN [estimatedFlows |-> 2, confidence |-> "low",
          source |-> "Default estimate (no metadata)"]
  ELSE
    LET named ==
          IF appDetails.fileName # ""
            THEN IntegrationPattern(toLowerCase(appDetails.fileName),
                   ApiPatternFileName(toLowerCase(appDetails.fileName)))
          ELSE IF appDetails.domain # ""
            THEN IntegrationPattern(toLowerCase(appDetails.domain),
                   ApiPatternDomain(toLowerCase(appDetails.domain)))
          ELSE [flows |-> 2, source |-> "Application metadata"]
        e == WorkerHints(appDetails, named)
    IN [estimatedFlows |-> CapFlows(e.flows), confidence |-> "low",
        source |-> e.source]

(***************************************************************************)
(* estimateMessageVolume(monitoringData).                                  *)
(* monitoringData is Null or [flowMetrics, messageData, resourceData,      *)
(* days].  flowMetrics is [kind, flows] with kind "null", "object" (a      *)
(* payload that is not an array) or "array"; a flow is [hasCount, count].  *)
(* messageData is [present, hasCount, count]; resourceData is [present,    *)
(* hasCpu, cpu8] with the CPU average in eighths.                          *)
(***************************************************************************)
RECURSIVE SumCounts(_)
SumCounts(flows) ==
  IF flows = <<>> THEN 0
  ELSE (IF Head(flows).hasCount THEN Head(flows).count ELSE 0)
       + SumCounts(Tail(flows))

RECURSIVE FlowsWithData(_)
FlowsWithData(flows) ==
  IF flows = <<>> THEN 0
  ELSE (IF Head(flows).hasCount THEN 1 ELSE 0) + FlowsWithData(Tail(flows))

NoEstimate ==
  [num |-> 0, den |-> 1, confidence |-> "none",
   source |-> "No message data available"]

\* Faulty variant of FlowTier: fires only when every flow carries a count
FlowTier_needsEveryFlow(md, e) ==
  IF md.flowMetrics.kind = "array"
     /\ FlowsWithData(md.flowMetrics.flows) > 0
     /\ FlowsWithData(md.flowMetrics.flows) = Len(md.flowMetrics.flows)
    THEN [num |-> SumCounts(md.flowMetrics.flows), den |-> md.days,
          confidence |-> "high", source |-> "Flow-level message metrics"]
  ELSE e

FlowTier(md, e) ==
  IF md.flowMetrics.kind = "array" /\ FlowsWithData(md.flowMetrics.flows) > 0
    THEN [num |-> SumCounts(md.flowMetrics.flows), den |-> md.days,
          confidence |-> "high", source |-> "Flow-level message metrics"]
  ELSE e

\* Faulty variant of ApplicationTier: does not test the estimate so far
ApplicationTier_unguarded(md, e) ==
  IF md.messageData.present /\ md.messageData.hasCount
    THEN [num |-> md.messageData.count, den |-> md.days,
          confidence |-> "medium",
          source |-> "Application-level message metrics"]
  ELSE e

ApplicationTier(md, e) ==
  IF e.num = 0 /\ md.messageData.present /\ md.messageData.hasCount
    THEN [num |-> md.messageData.count, den |-> md.days,
          confidence |-> "medium",
          source |-> "Application-level message metrics"]
  ELSE e

\* Faulty variant of CpuTier: leaves the confidence as it was
CpuTier_keepsConfidence(md, e) ==
  IF e.num = 0 /\ md.resourceData.present /\ md.resourceData.hasCpu
    THEN [num |-> md.resourceData.cpu8 * 100, den |-> 8,
          confidence |-> e.confidence, source |-> "CPU usage heuristic"]
  ELSE e

CpuTier(md, e) ==
  IF e.num = 0 /\ md.resourceData.present /\ md.resourceData.hasCpu
    THEN [num |-> md.resourceData.cpu8 * 100, den |-> 8,
          confidence |-> "low", source |-> "CPU usage heuristic"]
  ELSE e

\* the unrounded estimate after the three tiers
DailyEstimate(md) == CpuTier(md, ApplicationTier(md, FlowTier(md, NoEstimate)))

\* Faulty variant of MonthlyMessages: multiplies the rounded daily value
MonthlyMessages_fromRounded(e) == Round(e.num, e.den) * 30

MonthlyMessages(e) == Round(e.num * 30, e.den)

estimateMessageVolume(monitoringData) ==
  IF monitoringData = Null
    THEN [estimatedDailyMessages |-> 0, estimatedMonthlyMessages |-> 0,
          confidence |-> "none", source |-> "No monitoring data available"]
  ELSE
    LET e == DailyEstimate(monitoringData)
    IN [estimatedDailyMessages |-> Round(e.num, e.den),
        estimatedMonthlyMessages |-> MonthlyMessages(e),
        confidence |-> e.confidence, source |-> e.source]

(***************************************************************************)
(* State.                                                                  *)
(***************************************************************************)
VARIABLES
  pc,                \* the call the program is waiting on, or its position
  CONFIG,            \* [credentials, downloadJars, exportCsv, analyzeDays]
  hierarchy,         \* response.data of the hierarchy request (line 115)
  businessGroups,    \* the flattened hierarchy, analyzeBillableConsumption
  gi,                \* index of `group` in businessGroups
  environments,      \* environments of the current group
  ei,                \* index of `env` in environments
  applications,      \* applications of the current environment
  ai,                \* index of `app` in applications
  listing,           \* outcome of the listing request just answered
  inventory,         \* [businessGroups, summary]
  businessGroupData, \* the group entry under construction
  environmentData,   \* the environment entry under construction
  appDetails,        \* result of getApplicationDetails
  armResponse,       \* outcome of the artifact request ("" if none made)
  jarInfo,           \* result of downloadApplicationJar
  metrics,           \* getApplicationMonitoringData: the payloads fetched
  monitoringData,    \* result of getApplicationMonitoringData
  jarPath,           \* analyzeJarForFlows: its first argument ("" is null)
  jarScan,           \* analyzeJarForFlows: locals of the extraction
  flowAnalysis,      \* result of analyzeJarForFlows
  messageAnalysis,   \* result of estimateMessageVolume
  jarFiles,          \* application-jars directory: file name -> [exists, size]
  written,           \* fs.writeFileSync calls of the run, in order
  requests,          \* HTTP requests issued by the run, in order
  procs              \* subprocesses started and not yet finished

inputVars == <<CONFIG, hierarchy>>

loopVars ==
  <<businessGroups, gi, environments, ei, applications, ai, listing>>

treeVars == <<inventory, businessGroupData, environmentData>>

appVars == <<appDetails, armResponse, jarInfo, metrics, monitoringData>>

jarVars == <<jarPath, jarScan, flowAnalysis>>

diskVars == <<jarFiles, written, procs>>

vars == <<pc, inputVars, loopVars, treeVars, appVars, jarVars, messageAnalysis,
          diskVars, requests>>

(***************************************************************************)
(* Inputs of estimateMessageVolume.                                        *)
(***************************************************************************)
FlowCountValues == {0, 100, 1500}

MessageCountValues == {0, 100, 3000}

CpuEighths == {0, 1, 8}

PeriodDays == {1, 7, 30}

FlowEntries ==
  {[hasCount |-> FALSE, count |-> 0]}
    \cup {[hasCount |-> TRUE, count |-> c] : c \in FlowCountValues}

FlowLists == UNION {[1..n -> FlowEntries] : n \in 0..MaxFlowMetrics}

FlowMetricsInputs ==
  {[kind |-> "null", flows |-> <<>>], [kind |-> "object", flows |-> <<>>]}
    \cup {[kind |-> "array", flows |-> f] : f \in FlowLists}

MessageDataInputs ==
  {[present |-> FALSE, hasCount |-> FALSE, count |-> 0],
   [present |-> TRUE, hasCount |-> FALSE, count |-> 0]}
    \cup {[present |-> TRUE, hasCount |-> TRUE, count |-> c] :
            c \in MessageCountValues}

ResourceDataInputs ==
  {[present |-> FALSE, hasCpu |-> FALSE, cpu8 |-> 0],
   [present |-> TRUE, hasCpu |-> FALSE, cpu8 |-> 0]}
    \cup {[present |-> TRUE, hasCpu |-> TRUE, cpu8 |-> c] : c \in CpuEighths}

MonitoringInputs ==
  {Null} \cup
  [flowMetrics : FlowMetricsInputs, messageData : MessageDataInputs,
   resourceData : ResourceDataInputs, days : PeriodDays]

(***************************************************************************)
(* Values the variables a specification does not use are held at.          *)
(***************************************************************************)
\* file names in the application-jars directory
JarNames == {"orders-papi-1.0.jar", "crm.jar"}

NoJarFiles == [n \in JarNames |-> [exists |-> FALSE, size |-> 0]]

NoProcs == [awaited |-> "", cleanup |-> 0]

\* the positions at which the run waits for the answer to an HTTP request
RequestCalls ==
  {"getAccessToken", "getRootOrganization", "getBusinessGroups",
   "getEnvironments", "getApplications", "getApplicationDetails",
   "downloadApplicationJar", "metricsMessageCount", "metricsResources",
   "metricsFlows"}

\* the request log after a step that leads to position `call` while the
\* loops are at group g, environment e, application a
Issue(log, call, g, e, a) ==
  IF call \in RequestCalls THEN Append(log, <<call, g, e, a>>) ELSE log

NoConfig ==
  [credentials |-> TRUE, downloadJars |-> TRUE, exportCsv |-> TRUE,
   analyzeDays |-> 30]

NoInventory ==
  [businessGroups |-> <<>>,
   summary |-> [totalApplications |-> 0, totalEstimatedFlows |-> 0,
                totalEstimatedMonthlyMessages |-> 0]]

NoScan ==
  [fileSize |-> 0, found |-> 0, remaining |-> 0, totalFlows |-> 0,
   totalSubFlows |-> 0, totalOtherFlows |-> 0, attempted |-> FALSE]

NoMetrics ==
  [messageData |-> [present |-> FALSE, hasCount |-> FALSE, count |-> 0],
   resourceData |-> [present |-> FALSE, hasCpu |-> FALSE, cpu8 |-> 0],
   flowMetrics |-> [kind |-> "null", flows |-> <<>>]]

\* no listing request is waiting to be looked at
NoListing == [environments |-> "", applications |-> ""]

IdleLoop ==
  /\ hierarchy = Null
  /\ listing = NoListing
  /\ businessGroups = <<>> /\ gi = 0
  /\ environments = <<>> /\ ei = 0
  /\ applications = <<>> /\ ai = 0

IdleTree ==
  /\ inventory = NoInventory
  /\ businessGroupData = Null
  /\ environmentData = Null

(***************************************************************************)
(* SpecMsg: estimateMessageVolume applied to every monitoring input.       *)
(***************************************************************************)
InitMsg ==
  /\ pc = "estimateMessageVolume"
  /\ CONFIG = NoConfig
  /\ IdleLoop /\ IdleTree
  /\ appDetails = Null /\ armResponse = "" /\ jarInfo = Null
  /\ metrics = NoMetrics
  /\ monitoringData \in MonitoringInputs
  /\ jarPath = "" /\ jarScan = NoScan /\ flowAnalysis = Null
  /\ messageAnalysis = Null
  /\ jarFiles = NoJarFiles /\ written = <<>> /\ procs = NoProcs
  /\ requests = <<>>

EstimateMessages ==
  /\ pc = "estimateMessageVolume"
  /\ messageAnalysis' = estimateMessageVolume(monitoringData)
  /\ pc' = "estimated"
  /\ UNCHANGED <<inputVars, requests, loopVars, treeVars, appVars, jarVars, diskVars>>

NextMsg == EstimateMessages

SpecMsg == InitMsg /\ [][NextMsg]_vars

(***************************************************************************)
(* analyzeJarForFlows(jarPath, appDetails), one action per awaited         *)
(* subprocess.  jarScan holds its locals: fileSize (stats.size, bytes),    *)
(* remaining (configuration files still to count), the three running       *)
(* totals, and attempted (the extraction was started).                     *)
(* procs is [awaited, cleanup]: the subprocess the function waits on ("" if *)
(* none) and the number of `rm -rf` subprocesses started at line 621, which *)
(* nothing waits on.                                                       *)
(***************************************************************************)
\* stats.size of the JAR files drawn, in bytes
JarSizes == {0, 262143, 262144, 2411725, 10485760, 11000000}

\* parseInt of the output of one `grep -c ... || echo 0`: the count, or NaN
\* when the shell printed nothing (exec's error argument is not read)
CountValues == {0, 1, NaN}

existsSync(path) == path \in DOMAIN jarFiles /\ jarFiles[path].exists

\* fileSizeInMB.toFixed(2), as hundredths of a MB: 100 * size / 2^20, that
\* is 25 * size / 2^18, to the nearest integer
SizeCentiMB(size) == Round(25 * size, 262144)

\* Faulty variant of SizeHeuristicFlows: truncates instead of rounding
SizeHeuristicFlows_truncates(size) == Max(1, Min(20, size \div 524288))

\* Math.max(1, Math.min(20, Math.round(fileSizeInMB / 0.5)))
SizeHeuristicFlows(size) == Max(1, Min(20, Round(size, 524288)))

\* Faulty variant of SizeHeuristicResult: falls back to the metadata estimate
SizeHeuristicResult_usesMetadata(size) == estimateBasedOnAppDetails(appDetails)

SizeHeuristicResult(size) ==
  [estimatedFlows |-> SizeHeuristicFlows(size), confidence |-> "low",
   source |-> "JAR size heuristic", size |-> SizeCentiMB(size),
   actualAnalysis |-> FALSE]

XmlAnalysisResult(scan, size) ==
  [estimatedFlows |->
     Plus(Plus(scan.totalFlows, scan.totalSubFlows), scan.totalOtherFlows),
   confidence |-> "high", source |-> "XML analysis",
   size |-> SizeCentiMB(size), actualAnalysis |-> TRUE]

\* lines 533-570: up to the first await (the unzip subprocess).  statSync
\* can only throw after existsSync returned true when the file was removed
\* in between (by another process): `gone` is that case.
AnalyzeEnter ==
  /\ pc = "analyzeJarForFlows"
  /\ IF jarPath = "" \/ ~existsSync(jarPath)
       THEN /\ flowAnalysis' = estimateBasedOnAppDetails(appDetails)
            /\ pc' = "analyzed"
            /\ jarScan' = NoScan
            /\ UNCHANGED <<procs, jarFiles>>
       ELSE \E gone \in BOOLEAN, mkdirOk \in BOOLEAN :
              IF gone
                THEN \* statSync throws: the catch at line 655
                     /\ jarFiles' = [jarFiles EXCEPT ![jarPath].exists = FALSE]
                     /\ flowAnalysis' = estimateBasedOnAppDetails(appDetails)
                     /\ pc' = "analyzed"
                     /\ jarScan' = NoScan
                     /\ UNCHANGED procs
              ELSE IF ~mkdirOk
                THEN \* ensureDirectoryExists throws: the catch at line 625
                     /\ jarScan' = [NoScan EXCEPT
                                      !.fileSize = jarFiles[jarPath].size,
                                      !.attempted = TRUE]
                     /\ flowAnalysis' =
                          SizeHeuristicResult(jarFiles[jarPath].size)
                     /\ pc' = "analyzed"
                     /\ UNCHANGED <<procs, jarFiles>>
              ELSE /\ jarScan' = [NoScan EXCEPT
                                    !.fileSize = jarFiles[jarPath].size,
                                    !.attempted = TRUE]
                   /\ procs' = [procs EXCEPT !.awaited = "unzip"]
                   /\ pc' = "unzip"
                   /\ UNCHANGED <<flowAnalysis, jarFiles>>
  /\ UNCHANGED <<inputVars, requests, loopVars, treeVars, appVars, jarPath,
                 messageAnalysis, written>>

\* lines 562-576: unzip exits (its result is dropped), find is started
UnzipExits ==
  /\ pc = "unzip"
  /\ procs' = [procs EXCEPT !.awaited = "find"]
  /\ pc' = "find"
  /\ UNCHANGED <<inputVars, requests, loopVars, treeVars, appVars, jarVars,
                 messageAnalysis, jarFiles, written>>

\* lines 576-598 and 622-654: find exits with the list of configuration files
FindExits ==
  /\ pc = "find"
  /\ \E found \in 0..MaxConfigFiles :
       IF found = 0
         THEN /\ flowAnalysis' = SizeHeuristicResult(jarScan.fileSize)
              /\ procs' = [procs EXCEPT !.awaited = ""]
              /\ pc' = "analyzed"
              /\ UNCHANGED jarScan
         ELSE /\ jarScan' = [jarScan EXCEPT !.found = found,
                                            !.remaining = found]
              /\ procs' = [procs EXCEPT !.awaited = "grep"]
              /\ pc' = "count"
              /\ UNCHANGED flowAnalysis
  /\ UNCHANGED <<inputVars, requests, loopVars, treeVars, appVars, jarPath,
                 messageAnalysis, jarFiles, written>>

\* lines 593-639: the three counts of one configuration file; after the
\* last file the cleanup is started and the result returned
CountExits ==
  /\ pc = "count"
  /\ \E flowCount \in CountValues, subFlowCount \in CountValues,
        otherFlowCount \in CountValues :
       LET scan == [jarScan EXCEPT
                      !.totalFlows = Plus(@, flowCount),
                      !.totalSubFlows = Plus(@, subFlowCount),
                      !.totalOtherFlows = Plus(@, otherFlowCount),
                      !.remaining = @ - 1]
       IN /\ jarScan' = scan
          /\ IF scan.remaining = 0
               THEN /\ flowAnalysis' = XmlAnalysisResult(scan, scan.fileSize)
                    /\ procs' = [awaited |-> "",
                                 cleanup |-> procs.cleanup + 1]
                    /\ pc' = "analyzed"
               ELSE UNCHANGED <<flowAnalysis, procs, pc>>
  /\ UNCHANGED <<inputVars, requests, loopVars, treeVars, appVars, jarPath,
                 messageAnalysis, jarFiles, written>>

\* an `rm -rf` subprocess of line 621 exits
CleanupExits ==
  /\ procs.cleanup > 0
  /\ procs' = [procs EXCEPT !.cleanup = @ - 1]
  /\ UNCHANGED <<pc, inputVars, requests, loopVars, treeVars, appVars, jarVars,
                 messageAnalysis, jarFiles, written>>

(***************************************************************************)
(* SpecFlow: analyzeJarForFlows applied to drawn artifacts and metadata.   *)
(***************************************************************************)
FileNameInputs ==
  {"", "customer-eapi-salesforce-v1.jar", "Order-PAPI-Database.jar",
   "billing-system-api-onbase.jar", "sapi-splunk.jar", "experience.jar",
   "orders.jar", "eapi-papi-sapi.jar", "sfdc-database-splunk.jar"}

DomainInputs ==
  {"", "order-papi-database", "experience-portal", "process-sfdc",
   "system-splunk", "eapi-papi-sapi", "orders", "onbase-splunk"}

WorkerAmounts == {0, 1, 2, 5}

WorkerWeights == {0, 10, 14, 20, 50}

DetailInputs ==
  {Null} \cup
  [domain : DomainInputs, fileName : FileNameInputs, versionId : {""},
   hasWorkers : {FALSE}, amount : {0}, weightC : {0}] \cup
  [domain : DomainInputs, fileName : FileNameInputs, versionId : {""},
   hasWorkers : {TRUE}, amount : WorkerAmounts, weightC : WorkerWeights]

\* metadata used when an artifact is present (it is read only by a fallback)
ArtifactDetailInputs ==
  {Null,
   [domain |-> "order-papi-database", fileName |-> "orders-papi-1.0.jar",
    versionId |-> "v1", hasWorkers |-> TRUE, amount |-> 2, weightC |-> 20]}

InitFlow ==
  /\ pc = "analyzeJarForFlows"
  /\ CONFIG = NoConfig
  /\ IdleLoop /\ IdleTree
  /\ armResponse = "" /\ jarInfo = Null
  /\ metrics = NoMetrics /\ monitoringData = Null
  /\ \/ /\ jarPath \in {""} \cup JarNames
        /\ jarFiles = NoJarFiles
        /\ appDetails \in DetailInputs
     \/ /\ jarPath \in JarNames
        /\ \E size \in JarSizes :
             jarFiles = [NoJarFiles EXCEPT
                           ![jarPath] = [exists |-> TRUE, size |-> size]]
        /\ appDetails \in ArtifactDetailInputs
  /\ jarScan = NoScan /\ flowAnalysis = Null
  /\ messageAnalysis = Null
  /\ written = <<>> /\ procs = NoProcs
  /\ requests = <<>>

NextFlow ==
  \/ AnalyzeEnter
  \/ UnzipExits
  \/ FindExits
  \/ CountExits
  \/ CleanupExits

SpecFlow == InitFlow /\ [][NextFlow]_vars

(***************************************************************************)
(* Responses of the platform API drawn in a run.                           *)
(***************************************************************************)
Org(id, parentId, subs) ==
  [id |-> id, name |-> id, parentId |-> parentId, subOrganizations |-> subs]

\* hierarchy responses: the root alone, and the root with one business group
HierarchyInputs ==
  {Org("org", "", <<>>), Org("org", "", <<Org("bg1", "org", <<>>)>>)}

ProductionEnv(orgId) ==
  [id |-> orgId \o "-prod", name |-> "Production", type |-> "production",
   isProduction |-> TRUE]

SandboxEnv(orgId) ==
  [id |-> orgId \o "-sbx", name |-> "Sandbox", type |-> "sandbox",
   isProduction |-> FALSE]

\* environment responses of one business group; ok = FALSE is a failed or
\* malformed response
EnvironmentResponses(orgId) ==
  {[ok |-> FALSE, data |-> <<>>], [ok |-> TRUE, data |-> <<>>],
   [ok |-> TRUE, data |-> <<ProductionEnv(orgId)>>],
   [ok |-> TRUE, data |-> <<ProductionEnv(orgId), SandboxEnv(orgId)>>]}

OrdersApp ==
  [domain |-> "orders-papi", status |-> "STARTED",
   fileName |-> "orders-papi-1.0.jar", hasWorkers |-> TRUE, amount |-> 2,
   weightC |-> 20]

CrmApp ==
  [domain |-> "crm-sfdc", status |-> "STARTED", fileName |-> "",
   hasWorkers |-> FALSE, amount |-> 0, weightC |-> 0]

ApplicationLists == {<<>>, <<OrdersApp>>, <<CrmApp>>, <<OrdersApp, CrmApp>>}

\* the envelopes of lines 191-228, "error" (the request throws) and "noData"
ResponseKinds == {"error", "noData", "array", "data", "applications", "other"}

\* stats of a downloaded artifact, in bytes
DownloadSizes == {2411725}

\* payloads of the three metric requests when they succeed
MessagePayload == [present |-> TRUE, hasCount |-> TRUE, count |-> 3000]

ResourcePayload == [present |-> TRUE, hasCpu |-> TRUE, cpu8 |-> 8]

FlowPayload ==
  [kind |-> "array", flows |-> <<[hasCount |-> TRUE, count |-> 1500]>>]

\* a metric request throws, answers with an error flag, or answers
MetricOutcomes == {"failed", "errorFlag", "ok"}

(***************************************************************************)
(* Helpers of the orchestration.                                           *)
(***************************************************************************)
RECURSIVE flattenBusinessGroups(_)
RECURSIVE FlattenEach(_)
flattenBusinessGroups(group) ==
  <<[id |-> group.id, name |-> group.name, parentId |-> group.parentId]>>
    \o FlattenEach(group.subOrganizations)

FlattenEach(subs) ==
  IF subs = <<>> THEN <<>>
  ELSE flattenBusinessGroups(Head(subs)) \o FlattenEach(Tail(subs))

getEnvironments(response) == IF response.ok THEN response.data ELSE <<>>

\* lines 231-240: the record kept of one listed application (lastUpdateTime,
\* muleVersion and workerType, which no estimate reads, are left out)
ListedApplication(app) ==
  [domain |-> app.domain, status |-> app.status, fileName |-> app.fileName,
   workerSize |-> IF app.hasWorkers THEN app.weightC ELSE 0,
   numberOfWorkers |-> IF app.hasWorkers THEN app.amount ELSE 0]

\* Faulty variant of getApplications: any answer that is not an error is
\* read as a list of applications
getApplications_anyShape(kind, apps) ==
  IF kind \in {"array", "data", "applications", "other"}
    THEN [i \in 1..Len(apps) |-> ListedApplication(apps[i])]
  ELSE <<>>

\* lines 168-256
getApplications(kind, apps) ==
  IF kind \in {"array", "data", "applications"}
    THEN [i \in 1..Len(apps) |-> ListedApplication(apps[i])]
  ELSE <<>>

\* answers of the application detail request for a listed application: Null
\* (the request fails or has no data) or the detail record, with or without
\* a version id
DetailResponses(app) ==
  {Null} \cup
  {[domain |-> app.domain, fileName |-> app.fileName, versionId |-> v,
    hasWorkers |-> app.numberOfWorkers > 0, amount |-> app.numberOfWorkers,
    weightC |-> app.workerSize] :
     v \in IF app.fileName = "" THEN {""} ELSE {"", "v1"}}

\* Faulty variant of UpdateSummary: adds the daily instead of the monthly value
UpdateSummary_addsDaily(summary, flows, messages) ==
  [totalApplications |-> summary.totalApplications + 1,
   totalEstimatedFlows |->
     summary.totalEstimatedFlows + OrZero(flows.estimatedFlows),
   totalEstimatedMonthlyMessages |->
     summary.totalEstimatedMonthlyMessages
       + OrZero(messages.estimatedDailyMessages)]

\* Faulty variant of UpdateSummary: adds the estimates without `|| 0`
UpdateSummary_noDefault(summary, flows, messages) ==
  [totalApplications |-> summary.totalApplications + 1,
   totalEstimatedFlows |->
     Plus(summary.totalEstimatedFlows, flows.estimatedFlows),
   totalEstimatedMonthlyMessages |->
     Plus(summary.totalEstimatedMonthlyMessages,
          messages.estimatedMonthlyMessages)]

\* lines 1111-1113
UpdateSummary(summary, flows, messages) ==
  [totalApplications |-> summary.totalApplications + 1,
   totalEstimatedFlows |->
     summary.totalEstimatedFlows + OrZero(flows.estimatedFlows),
   totalEstimatedMonthlyMessages |->
     summary.totalEstimatedMonthlyMessages
       + OrZero(messages.estimatedMonthlyMessages)]

(***************************************************************************)
(* The report folds.                                                       *)
(***************************************************************************)
RECURSIVE SumSeq(_)
SumSeq(s) == IF s = <<>> THEN 0 ELSE Head(s) + SumSeq(Tail(s))

RECURSIVE Concat(_)
Concat(ss) == IF ss = <<>> THEN <<>> ELSE Head(ss) \o Concat(Tail(ss))

\* the environments visited by group.environments.forEach, in order
EnvironmentsOf(groups) ==
  Concat([g \in 1..Len(groups) |-> groups[g].environments])

\* Faulty variant of AppCount: counts every environment in both columns
AppCount_everyEnvironment(envs, production) ==
  SumSeq([i \in 1..Len(envs) |-> Len(envs[i].applications)])

\* lines 912-919 and 965-973
AppCount(envs, production) ==
  SumSeq([i \in 1..Len(envs) |->
            IF envs[i].isProduction = production
              THEN Len(envs[i].applications) ELSE 0])

EnvFlows(env) ==
  SumSeq([j \in 1..Len(env.applications) |->
            OrZero(env.applications[j].flowAnalysis.estimatedFlows)])

EnvMessages(env) ==
  SumSeq([j \in 1..Len(env.applications) |->
            OrZero(env.applications[j].messageAnalysis
                     .estimatedMonthlyMessages)])

FlowTotalOf(envs, production) ==
  SumSeq([i \in 1..Len(envs) |->
            IF envs[i].isProduction = production
              THEN EnvFlows(envs[i]) ELSE 0])

MessageTotalOf(envs, production) ==
  SumSeq([i \in 1..Len(envs) |->
            IF envs[i].isProduction = production
              THEN EnvMessages(envs[i]) ELSE 0])

\* lines 947-1006: the rows Applications, Estimated Flows, Est. Monthly
\* Messages with their columns Total, Production, Sandbox
generateOrganizationSummaryReport(inv) ==
  LET envs == EnvironmentsOf(inv.businessGroups)
  IN [applications |->
        [total |-> SumSeq([i \in 1..Len(envs) |->
                             Len(envs[i].applications)]),
         production |-> AppCount(envs, TRUE),
         sandbox |-> AppCount(envs, FALSE)],
      flows |->
        [total |-> SumSeq([i \in 1..Len(envs) |-> EnvFlows(envs[i])]),
         production |-> FlowTotalOf(envs, TRUE),
         sandbox |-> FlowTotalOf(envs, FALSE)],
      messages |->
        [total |-> SumSeq([i \in 1..Len(envs) |-> EnvMessages(envs[i])]),
         production |-> MessageTotalOf(envs, TRUE),
         sandbox |-> MessageTotalOf(envs, FALSE)]]

\* lines 893-942: one row per business group
BusinessGroupRow(group) ==
  LET envs == group.environments
  IN [name |-> group.name, id |-> group.id,
      totalApps |-> SumSeq([i \in 1..Len(envs) |->
                              Len(envs[i].applications)]),
      productionApps |-> AppCount(envs, TRUE),
      sandboxApps |-> AppCount(envs, FALSE),
      totalFlows |-> SumSeq([i \in 1..Len(envs) |-> EnvFlows(envs[i])]),
      totalMonthlyMessages |->
        SumSeq([i \in 1..Len(envs) |-> EnvMessages(envs[i])])]

generateBusinessGroupCsvReport(inv) ==
  [g \in 1..Len(inv.businessGroups) |->
     BusinessGroupRow(inv.businessGroups[g])]

\* lines 847-888: one row per application
ApplicationRows(group, env) ==
  [j \in 1..Len(env.applications) |->
     [businessGroup |-> group.name, environment |-> env.name,
      isProduction |-> env.isProduction,
      application |-> env.applications[j].domain,
      status |-> env.applications[j].status,
      workers |-> env.applications[j].numberOfWorkers,
      estimatedFlows |->
        OrZero(env.applications[j].flowAnalysis.estimatedFlows),
      confidence |-> env.applications[j].flowAnalysis.confidence,
      dailyMessages |->
        OrZero(env.applications[j].messageAnalysis.estimatedDailyMessages),
      monthlyMessages |->
        OrZero(env.applications[j].messageAnalysis
                 .estimatedMonthlyMessages),
      messageConfidence |-> env.applications[j].messageAnalysis.confidence]]

GroupRows(group) ==
  Concat([i \in 1..Len(group.environments) |->
            ApplicationRows(group, group.environments[i])])

generateApplicationCsvReport(inv) ==
  Concat([g \in 1..Len(inv.businessGroups) |->
            GroupRows(inv.businessGroups[g])])

(***************************************************************************)
(* SpecTree: flattenBusinessGroups applied to drawn hierarchy responses.   *)
(* A node of a response carries its own parentId field, which the server   *)
(* may leave out ("") or fill with any organization id.                    *)
(***************************************************************************)
ChildIds == <<"bg1", "bg2", "bg3", "bg4">>

\* parentId fields drawn for a node nested under `parent`
ParentFields(parent) == {"", parent, "elsewhere"}

\* nodes drawn at position i under the root: a leaf, or a group with one
\* sub-organization
ChildInputs(i) ==
  {Org(ChildIds[i], p, subs) :
     p \in ParentFields("org"),
     subs \in {<<>>} \cup
              {<<Org(ChildIds[i] \o "-a", q, <<>>)>> :
                 q \in ParentFields(ChildIds[i])}}

ChildLists(n) ==
  {subs \in [1..n -> UNION {ChildInputs(i) : i \in 1..n}] :
     \A i \in 1..n : subs[i] \in ChildInputs(i)}

TreeInputs ==
  {Org("org", "", subs) :
     subs \in UNION {ChildLists(n) : n \in 0..MaxSubOrganizations}}

InitTree ==
  /\ pc = "flattenBusinessGroups"
  /\ CONFIG = NoConfig
  /\ hierarchy \in TreeInputs
  /\ businessGroups = <<>> /\ gi = 0
  /\ environments = <<>> /\ ei = 0
  /\ applications = <<>> /\ ai = 0
  /\ listing = NoListing
  /\ IdleTree
  /\ appDetails = Null /\ armResponse = "" /\ jarInfo = Null
  /\ metrics = NoMetrics /\ monitoringData = Null
  /\ jarPath = "" /\ jarScan = NoScan /\ flowAnalysis = Null
  /\ messageAnalysis = Null
  /\ jarFiles = NoJarFiles /\ written = <<>> /\ procs = NoProcs
  /\ requests = <<>>

\* line 120
FlattenHierarchy ==
  /\ pc = "flattenBusinessGroups"
  /\ businessGroups' = flattenBusinessGroups(hierarchy)
  /\ pc' = "flattened"
  /\ UNCHANGED <<inputVars, requests, gi, environments, ei, applications, ai,
                 listing, treeVars, appVars, jarVars, messageAnalysis,
                 diskVars>>

NextTree == FlattenHierarchy

SpecTree == InitTree /\ [][NextTree]_vars

(***************************************************************************)
(* Spec: a run of analyzeBillableConsumption.  pc is the request or call   *)
(* the run waits on, or the loop head it stands at; "exit1" is             *)
(* process.exit(1) and "done" the end of a successful run.                 *)
(* inventory.timestamp and inventory.rootOrganization, which no total      *)
(* reads, are left out.                                                    *)
(***************************************************************************)
\* the two switches are read at different places (lines 302/1080 and
\* 1140): each is drawn on and off
\* credentials is CONFIG.clientId && CONFIG.clientSecret; without them
\* nothing else of CONFIG is read
ConfigInputs ==
  {[credentials |-> TRUE, downloadJars |-> b, exportCsv |-> b,
    analyzeDays |-> 30] : b \in BOOLEAN}
    \cup {[NoConfig EXCEPT !.credentials = FALSE]}

Init ==
  /\ pc = "validate"
  /\ CONFIG \in ConfigInputs
  /\ IdleLoop /\ IdleTree
  /\ appDetails = Null /\ armResponse = "" /\ jarInfo = Null
  /\ metrics = NoMetrics /\ monitoringData = Null
  /\ jarPath = "" /\ jarScan = NoScan /\ flowAnalysis = Null
  /\ messageAnalysis = Null
  /\ jarFiles = NoJarFiles /\ written = <<>> /\ procs = NoProcs
  /\ requests = <<>>

\* Faulty variant of ValidateParameters: the run starts without credentials
ValidateParameters_continues ==
  /\ pc = "validate"
  /\ pc' = "getAccessToken"
  /\ requests' = Issue(requests, pc', gi, ei, ai)
  /\ UNCHANGED <<inputVars, loopVars, treeVars, appVars, jarVars,
                 messageAnalysis, diskVars>>

\* lines 42-47 and 1170
ValidateParameters ==
  /\ pc = "validate"
  /\ pc' = IF CONFIG.credentials THEN "getAccessToken" ELSE "exit1"
  /\ requests' = Issue(requests, pc', gi, ei, ai)
  /\ UNCHANGED <<inputVars, loopVars, treeVars, appVars, jarVars,
                 messageAnalysis, diskVars>>

\* Faulty variant of GetAccessToken: a failed token request is issued a
\* second time
GetAccessToken_retriesOnce ==
  /\ pc = "getAccessToken"
  /\ \E ok \in BOOLEAN :
       pc' = IF ok THEN "getRootOrganization"
             ELSE IF Len(requests) < 2 THEN "getAccessToken"
             ELSE "exit1"
  /\ requests' = Issue(requests, pc', gi, ei, ai)
  /\ UNCHANGED <<inputVars, loopVars, treeVars, appVars, jarVars,
                 messageAnalysis, diskVars>>

\* line 1020; a failed authentication is thrown to the catch at line 1163
GetAccessToken ==
  /\ pc = "getAccessToken"
  /\ \E ok \in BOOLEAN :
       pc' = IF ok THEN "getRootOrganization" ELSE "exit1"
  /\ requests' = Issue(requests, pc', gi, ei, ai)
  /\ UNCHANGED <<inputVars, loopVars, treeVars, appVars, jarVars,
                 messageAnalysis, diskVars>>

\* line 1024
GetRootOrganization ==
  /\ pc = "getRootOrganization"
  /\ \E ok \in BOOLEAN :
       pc' = IF ok THEN "getBusinessGroups" ELSE "exit1"
  /\ requests' = Issue(requests, pc', gi, ei, ai)
  /\ UNCHANGED <<inputVars, loopVars, treeVars, appVars, jarVars,
                 messageAnalysis, diskVars>>

\* lines 1029-1042
GetBusinessGroups ==
  /\ pc = "getBusinessGroups"
  /\ \/ /\ pc' = "exit1"
        /\ UNCHANGED <<hierarchy, businessGroups, gi, inventory>>
     \/ \E data \in HierarchyInputs :
          /\ hierarchy' = data
          /\ businessGroups' = flattenBusinessGroups(data)
          /\ inventory' = NoInventory
          /\ gi' = 1
          /\ pc' = "groupLoop"
  /\ UNCHANGED <<CONFIG, requests, environments, ei, applications, ai, listing,
                 businessGroupData, environmentData, appVars, jarVars,
                 messageAnalysis, diskVars>>

\* line 1044: the next business group, or the end of the loop
GroupLoop ==
  /\ pc = "groupLoop"
  /\ pc' = IF gi <= Len(businessGroups) THEN "getEnvironments"
           ELSE "saveInventory"
  /\ requests' = Issue(requests, pc', gi, ei, ai)
  /\ UNCHANGED <<inputVars, loopVars, treeVars, appVars, jarVars,
                 messageAnalysis, diskVars>>

\* Faulty variant of GetEnvironments: a failed request is thrown to the
\* catch at line 1163
GetEnvironments_rethrows ==
  /\ pc = "getEnvironments"
  /\ \E response \in EnvironmentResponses(businessGroups[gi].id) :
       IF response.ok
         THEN /\ environments' = getEnvironments(response)
              /\ listing' = [listing EXCEPT !.environments = "ok"]
              /\ businessGroupData' =
                   [id |-> businessGroups[gi].id,
                    name |-> businessGroups[gi].name,
                    parentId |-> businessGroups[gi].parentId,
                    environments |-> <<>>]
              /\ ei' = 1
              /\ pc' = "envLoop"
         ELSE /\ pc' = "exit1"
              /\ UNCHANGED <<environments, listing, businessGroupData, ei>>
  /\ UNCHANGED <<inputVars, requests, businessGroups, gi, applications, ai, inventory,
                 environmentData, appVars, jarVars, messageAnalysis,
                 diskVars>>

\* lines 1047-1055
GetEnvironments ==
  /\ pc = "getEnvironments"
  /\ \E response \in EnvironmentResponses(businessGroups[gi].id) :
       /\ environments' = getEnvironments(response)
       /\ listing' =
            [listing EXCEPT
               !.environments = IF response.ok THEN "ok" ELSE "error"]
  /\ businessGroupData' =
       [id |-> businessGroups[gi].id, name |-> businessGroups[gi].name,
        parentId |-> businessGroups[gi].parentId, environments |-> <<>>]
  /\ ei' = 1
  /\ pc' = "envLoop"
  /\ UNCHANGED <<inputVars, requests, businessGroups, gi, applications, ai, inventory,
                 environmentData, appVars, jarVars, messageAnalysis,
                 diskVars>>

\* line 1057: the next environment, or line 1130 after the last one
EnvLoop ==
  /\ pc = "envLoop"
  /\ listing' = NoListing
  /\ IF ei <= Len(environments)
       THEN /\ pc' = "getApplications"
            /\ UNCHANGED <<gi, environments, ei, inventory,
                           businessGroupData>>
       ELSE /\ inventory' =
                 [inventory EXCEPT
                    !.businessGroups = Append(@, businessGroupData)]
            /\ businessGroupData' = Null
            /\ environments' = <<>>
            /\ ei' = 0
            /\ gi' = gi + 1
            /\ pc' = "groupLoop"
  /\ requests' = Issue(requests, pc', gi, ei, ai)
  /\ UNCHANGED <<inputVars, businessGroups, applications, ai, environmentData,
                 appVars, jarVars, messageAnalysis, diskVars>>

\* lines 1060-1069; a run lists at most MaxTotalApps applications
GetApplications ==
  /\ pc = "getApplications"
  /\ \E kind \in ResponseKinds, apps \in ApplicationLists :
       /\ Len(apps)
            <= MaxTotalApps - inventory.summary.totalApplications
       /\ kind \in {"error", "noData"} => apps = <<>>
       /\ applications' = getApplications(kind, apps)
       /\ listing' = [listing EXCEPT !.applications = kind]
  /\ environmentData' =
       [id |-> environments[ei].id, name |-> environments[ei].name,
        type |-> environments[ei].type,
        isProduction |-> environments[ei].isProduction,
        applications |-> <<>>]
  /\ ai' = 1
  /\ pc' = "appLoop"
  /\ UNCHANGED <<inputVars, requests, businessGroups, gi, environments, ei, inventory,
                 businessGroupData, appVars, jarVars, messageAnalysis,
                 diskVars>>

\* Faulty variant of AppLoop: an environment without applications is left
\* out of its group
AppLoop_skipsEmptyEnvironment ==
  /\ pc = "appLoop"
  /\ appDetails' = Null /\ armResponse' = "" /\ jarInfo' = Null
  /\ metrics' = NoMetrics /\ monitoringData' = Null
  /\ jarPath' = "" /\ jarScan' = NoScan /\ flowAnalysis' = Null
  /\ messageAnalysis' = Null
  /\ listing' = NoListing
  /\ IF ai <= Len(applications)
       THEN /\ pc' = "getApplicationDetails"
            /\ UNCHANGED <<ei, applications, ai, businessGroupData,
                           environmentData>>
       ELSE /\ businessGroupData' =
                 IF environmentData.applications = <<>>
                   THEN businessGroupData
                 ELSE [businessGroupData EXCEPT
                         !.environments = Append(@, environmentData)]
            /\ environmentData' = Null
            /\ applications' = <<>>
            /\ ai' = 0
            /\ ei' = ei + 1
            /\ pc' = "envLoop"
  /\ requests' = Issue(requests, pc', gi, ei, ai)
  /\ UNCHANGED <<inputVars, businessGroups, gi, environments, inventory,
                 diskVars>>

\* line 1072: the next application (its locals are fresh), or line 1127
\* after the last one
AppLoop ==
  /\ pc = "appLoop"
  /\ appDetails' = Null /\ armResponse' = "" /\ jarInfo' = Null
  /\ metrics' = NoMetrics /\ monitoringData' = Null
  /\ jarPath' = "" /\ jarScan' = NoScan /\ flowAnalysis' = Null
  /\ messageAnalysis' = Null
  /\ listing' = NoListing
  /\ IF ai <= Len(applications)
       THEN /\ pc' = "getApplicationDetails"
            /\ UNCHANGED <<ei, applications, ai, businessGroupData,
                           environmentData>>
       ELSE /\ businessGroupData' =
                 [businessGroupData EXCEPT
                    !.environments = Append(@, environmentData)]
            /\ environmentData' = Null
            /\ applications' = <<>>
            /\ ai' = 0
            /\ ei' = ei + 1
            /\ pc' = "envLoop"
  /\ requests' = Issue(requests, pc', gi, ei, ai)
  /\ UNCHANGED <<inputVars, businessGroups, gi, environments, inventory,
                 diskVars>>

\* lines 1076-1082 and 301-363: the detail response, then
\* downloadApplicationJar up to its request.  `gone` is the cached file
\* being removed between existsSync and statSync (the catch at line 424).
GetApplicationDetails ==
  /\ pc = "getApplicationDetails"
  /\ \E details \in DetailResponses(applications[ai]), gone \in BOOLEAN :
       /\ appDetails' = details
       /\ IF ~CONFIG.downloadJars \/ details = Null
            THEN /\ jarInfo' = Null
                 /\ pc' = "metricsMessageCount"
                 /\ UNCHANGED jarFiles
          ELSE IF details.fileName = ""
            THEN /\ jarInfo' = Null
                 /\ pc' = "metricsMessageCount"
                 /\ UNCHANGED jarFiles
          ELSE IF existsSync(details.fileName)
            THEN IF gone
                   THEN /\ jarFiles' = [jarFiles EXCEPT
                                          ![details.fileName].exists = FALSE]
                        /\ jarInfo' = Null
                        /\ pc' = "metricsMessageCount"
                   ELSE /\ jarInfo' =
                             [jarPath |-> details.fileName,
                              downloaded |-> FALSE,
                              size |-> jarFiles[details.fileName].size,
                              method |-> ""]
                        /\ pc' = "metricsMessageCount"
                        /\ UNCHANGED jarFiles
          ELSE IF details.versionId = ""
            THEN /\ jarInfo' = Null
                 /\ pc' = "metricsMessageCount"
                 /\ UNCHANGED jarFiles
          ELSE /\ jarInfo' = Null
               /\ pc' = "downloadApplicationJar"
               /\ UNCHANGED jarFiles
  /\ requests' = Issue(requests, pc', gi, ei, ai)
  /\ UNCHANGED <<inputVars, loopVars, treeVars, armResponse, metrics,
                 monitoringData, jarVars, messageAnalysis, written, procs>>

\* Faulty variant of DownloadResponds: an error response is saved and
\* returned as the artifact
DownloadResponds_ignoresFailure ==
  /\ pc = "downloadApplicationJar"
  /\ \E response \in {"ok", "noData", "error"}, size \in DownloadSizes :
       /\ armResponse' = response
       /\ IF response \in {"ok", "error"}
            THEN /\ jarFiles' =
                      [jarFiles EXCEPT
                         ![appDetails.fileName] =
                            [exists |-> TRUE, size |-> size]]
                 /\ jarInfo' =
                      [jarPath |-> appDetails.fileName, downloaded |-> TRUE,
                       size |-> size, method |-> "arm-api"]
            ELSE /\ jarInfo' = Null
                 /\ UNCHANGED jarFiles
  /\ pc' = "metricsMessageCount"
  /\ requests' = Issue(requests, pc', gi, ei, ai)
  /\ UNCHANGED <<inputVars, loopVars, treeVars, appDetails, metrics,
                 monitoringData, jarVars, messageAnalysis, written, procs>>

\* lines 363-423: the artifact request answers
DownloadResponds ==
  /\ pc = "downloadApplicationJar"
  /\ \E response \in {"ok", "noData", "error"}, size \in DownloadSizes :
       /\ armResponse' = response
       /\ IF response = "ok"
            THEN /\ jarFiles' =
                      [jarFiles EXCEPT
                         ![appDetails.fileName] =
                            [exists |-> TRUE, size |-> size]]
                 /\ jarInfo' =
                      [jarPath |-> appDetails.fileName, downloaded |-> TRUE,
                       size |-> size, method |-> "arm-api"]
            ELSE /\ jarInfo' = Null
                 /\ UNCHANGED jarFiles
  /\ pc' = "metricsMessageCount"
  /\ requests' = Issue(requests, pc', gi, ei, ai)
  /\ UNCHANGED <<inputVars, loopVars, treeVars, appDetails, metrics,
                 monitoringData, jarVars, messageAnalysis, written, procs>>

\* Faulty variant of FetchMessageCount: a failed request is thrown to the
\* catch at line 518, and getApplicationMonitoringData returns null
FetchMessageCount_throws ==
  /\ pc = "metricsMessageCount"
  /\ \E outcome \in MetricOutcomes :
       IF outcome = "failed"
         THEN /\ monitoringData' = Null
              /\ jarPath' = IF jarInfo # Null THEN jarInfo.jarPath ELSE ""
              /\ pc' = "analyzeJarForFlows"
              /\ UNCHANGED metrics
         ELSE /\ metrics' =
                   [metrics EXCEPT
                      !.messageData = IF outcome = "ok" THEN MessagePayload
                                      ELSE NoMetrics.messageData]
              /\ pc' = "metricsResources"
              /\ UNCHANGED <<monitoringData, jarPath>>
  /\ requests' = Issue(requests, pc', gi, ei, ai)
  /\ UNCHANGED <<inputVars, loopVars, treeVars, appDetails, armResponse,
                 jarInfo, jarScan, flowAnalysis, messageAnalysis, diskVars>>

\* lines 447-466
FetchMessageCount ==
  /\ pc = "metricsMessageCount"
  /\ \E outcome \in MetricOutcomes :
       metrics' = [metrics EXCEPT
                     !.messageData = IF outcome = "ok" THEN MessagePayload
                                     ELSE NoMetrics.messageData]
  /\ pc' = "metricsResources"
  /\ requests' = Issue(requests, pc', gi, ei, ai)
  /\ UNCHANGED <<inputVars, loopVars, treeVars, appDetails, armResponse,
                 jarInfo, monitoringData, jarVars, messageAnalysis,
                 diskVars>>

\* lines 468-487
FetchResources ==
  /\ pc = "metricsResources"
  /\ \E outcome \in MetricOutcomes :
       metrics' = [metrics EXCEPT
                     !.resourceData = IF outcome = "ok" THEN ResourcePayload
                                      ELSE NoMetrics.resourceData]
  /\ pc' = "metricsFlows"
  /\ requests' = Issue(requests, pc', gi, ei, ai)
  /\ UNCHANGED <<inputVars, loopVars, treeVars, appDetails, armResponse,
                 jarInfo, monitoringData, jarVars, messageAnalysis,
                 diskVars>>

\* lines 489-517 and 1088-1094: the last metric response, the monitoring
\* record, and the argument analyzeJarForFlows is called with
FetchFlowMetrics ==
  /\ pc = "metricsFlows"
  /\ \E outcome \in MetricOutcomes :
       LET fetched == [metrics EXCEPT
                         !.flowMetrics = IF outcome = "ok" THEN FlowPayload
                                         ELSE NoMetrics.flowMetrics]
       IN /\ metrics' = fetched
          /\ monitoringData' =
               [flowMetrics |-> fetched.flowMetrics,
                messageData |-> fetched.messageData,
                resourceData |-> fetched.resourceData,
                days |-> CONFIG.analyzeDays]
  /\ jarPath' = IF jarInfo # Null THEN jarInfo.jarPath ELSE ""
  /\ pc' = "analyzeJarForFlows"
  /\ UNCHANGED <<inputVars, requests, loopVars, treeVars, appDetails, armResponse,
                 jarInfo, jarScan, flowAnalysis, messageAnalysis, diskVars>>

\* lines 1100-1106 (jarInfo and monitoringData, which no total and no
\* report reads, are left out of the stored entry)
AppData(app, flows, messages) ==
  [domain |-> app.domain, status |-> app.status, fileName |-> app.fileName,
   workerSize |-> app.workerSize, numberOfWorkers |-> app.numberOfWorkers,
   flowAnalysis |-> flows, messageAnalysis |-> messages]

\* lines 1096-1124: analyzeJarForFlows has returned
RecordApplication ==
  /\ pc = "analyzed"
  /\ LET messages == estimateMessageVolume(monitoringData)
         appData == AppData(applications[ai], flowAnalysis, messages)
     IN /\ messageAnalysis' = messages
        /\ environmentData' =
             [environmentData EXCEPT !.applications = Append(@, appData)]
        /\ inventory' =
             [inventory EXCEPT
                !.summary = UpdateSummary(@, flowAnalysis, messages)]
        /\ written' =
             Append(written,
                    [path |-> <<businessGroups[gi].id,
                                applications[ai].domain \o ".json">>,
                     content |->
                       [businessGroup |->
                          [id |-> businessGroups[gi].id,
                           name |-> businessGroups[gi].name],
                        environment |-> environments[ei],
                        application |-> appData]])
  /\ ai' = ai + 1
  /\ pc' = "appLoop"
  /\ UNCHANGED <<inputVars, requests, businessGroups, gi, environments, ei, applications,
                 listing, businessGroupData, appVars, jarVars, jarFiles,
                 procs>>

\* Faulty variant of SaveInventory: the CSV reports are written whatever
\* CONFIG.exportCsv says
SaveInventory_csvAlways ==
  /\ pc = "saveInventory"
  /\ written' =
       written
         \o <<[path |-> <<"complete-billable-consumption.json">>,
               content |-> inventory],
              [path |-> <<"billable-consumption-by-application.csv">>,
               content |-> generateApplicationCsvReport(inventory)],
              [path |-> <<"billable-consumption-by-business-group.csv">>,
               content |-> generateBusinessGroupCsvReport(inventory)],
              [path |-> <<"organization-consumption-summary.csv">>,
               content |-> generateOrganizationSummaryReport(inventory)]>>
  /\ pc' = "done"
  /\ UNCHANGED <<inputVars, requests, loopVars, treeVars, appVars, jarVars,
                 messageAnalysis, jarFiles, procs>>

\* lines 1134-1145
SaveInventory ==
  /\ pc = "saveInventory"
  /\ written' =
       written
         \o <<[path |-> <<"complete-billable-consumption.json">>,
               content |-> inventory]>>
         \o IF CONFIG.exportCsv
              THEN <<[path |-> <<"billable-consumption-by-application.csv">>,
                      content |-> generateApplicationCsvReport(inventory)],
                     [path |->
                        <<"billable-consumption-by-business-group.csv">>,
                      content |-> generateBusinessGroupCsvReport(inventory)],
                     [path |-> <<"organization-consumption-summary.csv">>,
                      content |->
                        generateOrganizationSummaryReport(inventory)]>>
            ELSE <<>>
  /\ pc' = "done"
  /\ UNCHANGED <<inputVars, requests, loopVars, treeVars, appVars, jarVars,
                 messageAnalysis, jarFiles, procs>>

Next ==
  \/ ValidateParameters
  \/ GetAccessToken
  \/ GetRootOrganization
  \/ GetBusinessGroups
  \/ GroupLoop
  \/ GetEnvironments
  \/ EnvLoop
  \/ GetApplications
  \/ AppLoop
  \/ GetApplicationDetails
  \/ DownloadResponds
  \/ FetchMessageCount
  \/ FetchResources
  \/ FetchFlowMetrics
  \/ AnalyzeEnter
  \/ UnzipExits
  \/ FindExits
  \/ CountExits
  \/ CleanupExits
  \/ RecordApplication
  \/ SaveInventory

Spec == Init /\ [][Next]_vars

(***************************************************************************)
(* Properties of estimateMessageVolume (SpecMsg).                          *)
(***************************************************************************)
MsgReturned == pc = "estimated" /\ monitoringData # Null

\* sum of the numeric counts of the first n flows, recomputed from the input
RECURSIVE CountedTotal(_, _)
CountedTotal(flows, n) ==
  IF n = 0 THEN 0
  ELSE CountedTotal(flows, n - 1)
       + (IF flows[n].hasCount THEN flows[n].count ELSE 0)

SomeFlowCounted(md) ==
  /\ md.flowMetrics.kind = "array"
  /\ \E i \in DOMAIN md.flowMetrics.flows : md.flowMetrics.flows[i].hasCount

FlowTotal(md) ==
  CountedTotal(md.flowMetrics.flows, Len(md.flowMetrics.flows))

\* k is the integer nearest to num / den, ties rounded up
IsRounded(k, num, den) ==
  /\ 2 * den * k - 2 * num <= den
  /\ 2 * num - 2 * den * k < den

\* C4 as stated: the returned monthly value is round(returned daily value * 30).
C4_MonthlyIsThirtyTimesReturnedDaily ==
  pc = "estimated" =>
    messageAnalysis.estimatedMonthlyMessages
      = Round(messageAnalysis.estimatedDailyMessages * 30, 1)

\* C4 amended: the returned monthly value is round(30 * the unrounded daily
\* estimate), the returned daily value being that same estimate rounded; the
\* two agree with monthly = 30 * daily when the unrounded estimate is an
\* integer and differ from it by at most 15 otherwise.
C4_MonthlyFromUnroundedDaily ==
  MsgReturned =>
    LET e == DailyEstimate(monitoringData)
        daily == messageAnalysis.estimatedDailyMessages
        monthly == messageAnalysis.estimatedMonthlyMessages
    IN /\ IsRounded(monthly, 30 * e.num, e.den)
       /\ IsRounded(daily, e.num, e.den)
       /\ e.num % e.den = 0 => monthly = 30 * daily
       /\ monthly - 30 * daily \in -15..15

C4_Witness ==
  /\ MsgReturned
  /\ messageAnalysis.confidence = "high"
  /\ messageAnalysis.estimatedDailyMessages = 3
  /\ messageAnalysis.estimatedMonthlyMessages = 100

\* C5: confidence 'none' implies a daily and a monthly value of 0, with the
\* monitoring data absent and with it present but no tier firing.
C5_NoneMeansZero ==
  (pc = "estimated" /\ messageAnalysis.confidence = "none") =>
    /\ messageAnalysis.estimatedDailyMessages = 0
    /\ messageAnalysis.estimatedMonthlyMessages = 0

C5_Witness ==
  /\ MsgReturned
  /\ messageAnalysis.confidence = "none"
  /\ monitoringData.flowMetrics.kind = "array"
  /\ Len(monitoringData.flowMetrics.flows) > 0
  /\ monitoringData.messageData.present
  /\ monitoringData.resourceData.present

FlowTierNonZero(md) == SomeFlowCounted(md) /\ FlowTotal(md) # 0

AppTierNonZero(md) ==
  md.messageData.present /\ md.messageData.hasCount /\ md.messageData.count # 0

C9_TierOrder ==
  MsgReturned =>
    LET md == monitoringData
        src == messageAnalysis.source
    IN /\ src = "Application-level message metrics" => ~FlowTierNonZero(md)
       /\ src = "CPU usage heuristic" =>
            ~FlowTierNonZero(md) /\ ~AppTierNonZero(md)
       /\ FlowTierNonZero(md) =>
            /\ src = "Flow-level message metrics"
            /\ messageAnalysis.estimatedDailyMessages
                 = Round(FlowTotal(md), md.days)
       /\ (~FlowTierNonZero(md) /\ AppTierNonZero(md)) =>
            /\ src = "Application-level message metrics"
            /\ messageAnalysis.estimatedDailyMessages
                 = Round(md.messageData.count, md.days)

C9_Witness ==
  /\ MsgReturned
  /\ FlowTierNonZero(monitoringData)
  /\ AppTierNonZero(monitoringData)
  /\ monitoringData.resourceData.hasCpu
  /\ monitoringData.resourceData.cpu8 > 0
  /\ FlowTotal(monitoringData) # monitoringData.messageData.count
  /\ messageAnalysis.source = "Flow-level message metrics"

(***************************************************************************)
(* Properties of analyzeJarForFlows (SpecFlow).                            *)
(***************************************************************************)
FlowReturned == pc = "analyzed"

\* the artifact is at jarPath and structured extraction has found no
\* configuration (none in the archive, or the extraction failed)
ArtifactWithoutExtraction ==
  /\ FlowReturned
  /\ jarPath # ""
  /\ existsSync(jarPath)
  /\ jarScan.found = 0

\* clamp(k, 1, 20)
Clamp1To20(k) == IF k < 1 THEN 1 ELSE IF k > 20 THEN 20 ELSE k

\* C1: with the artifact present and no result from structured extraction,
\* the estimate is clamp(round(sizeInMB / 0.5), 1, 20), confidence 'low',
\* source 'JAR size heuristic'; the metadata estimator is not the source.
C1_SizeHeuristicWhenExtractionFails ==
  ArtifactWithoutExtraction =>
    /\ \E k \in 0..40 :
         /\ IsRounded(k, jarFiles[jarPath].size, 524288)
         /\ flowAnalysis.estimatedFlows = Clamp1To20(k)
    /\ flowAnalysis.confidence = "low"
    /\ flowAnalysis.source = "JAR size heuristic"
    /\ flowAnalysis # estimateBasedOnAppDetails(appDetails)

C1_Witness ==
  /\ ArtifactWithoutExtraction
  /\ jarScan.attempted
  /\ jarFiles[jarPath].size = 2411725
  /\ flowAnalysis.estimatedFlows = 5
  /\ appDetails # Null

\* C2 as stated: heuristic estimates lie in 1..20 and structured-extraction
\* estimates are numbers >= 0.
C2_EstimateRanges ==
  FlowReturned =>
    IF flowAnalysis.source = "XML analysis"
      THEN flowAnalysis.estimatedFlows \in Nat
      ELSE flowAnalysis.estimatedFlows \in 1..20


(***************************************************************************)
(* Properties of a run (Spec).                                             *)
(***************************************************************************)
\* the group and environment entries under construction, as they will be
\* pushed at lines 1127 and 1130
OpenGroups ==
  IF businessGroupData = Null THEN <<>>
  ELSE <<[businessGroupData EXCEPT
            !.environments =
               @ \o (IF environmentData = Null THEN <<>>
                     ELSE <<environmentData>>)]>>

TreeWithOpenEntries == inventory.businessGroups \o OpenGroups

\* every flow estimate stored so far
StoredFlowEstimates ==
  LET envs == EnvironmentsOf(TreeWithOpenEntries)
  IN UNION {{envs[i].applications[j].flowAnalysis :
               j \in 1..Len(envs[i].applications)} : i \in 1..Len(envs)}

Recomputed(groups) ==
  LET envs == EnvironmentsOf(groups)
  IN [totalApplications |->
        SumSeq([i \in 1..Len(envs) |-> Len(envs[i].applications)]),
      totalEstimatedFlows |->
        SumSeq([i \in 1..Len(envs) |-> EnvFlows(envs[i])]),
      totalEstimatedMonthlyMessages |->
        SumSeq([i \in 1..Len(envs) |-> EnvMessages(envs[i])])]

\* C6 as stated: in every state of a run the summary counters equal the
\* count and sums recomputed from the applications contained in
\* inventory.businessGroups.
C6_SummaryEqualsInventoryTree ==
  inventory.summary = Recomputed(inventory.businessGroups)

\* C6 amended: in every state the summary counters equal the count and sums
\* over inventory.businessGroups together with the group and environment
\* entries still under construction, and they equal the recomputation from
\* inventory.businessGroups alone once the group loop has ended.
C6_SummaryEqualsTreeWithOpenEntries ==
  /\ inventory.summary = Recomputed(TreeWithOpenEntries)
  /\ pc \in {"saveInventory", "done"} =>
       inventory.summary = Recomputed(inventory.businessGroups)

\* between two applications: the first is counted in the summary while its
\* group is not yet in inventory.businessGroups
C6_Witness ==
  /\ pc = "getApplicationDetails"
  /\ ai = 2
  /\ inventory.summary.totalApplications = 1
  /\ inventory.summary.totalEstimatedMonthlyMessages > 0
  /\ inventory.businessGroups = <<>>

\* C7: at the end of a successful run the totals tracked in
\* inventory.summary are the Total column of
\* generateOrganizationSummaryReport (Applications, Estimated Flows, Est.
\* Monthly Messages), and the summary file written holds them.
C7_SummaryEqualsReportTotals ==
  pc = "done" =>
    LET report == generateOrganizationSummaryReport(inventory)
    IN /\ inventory.summary.totalApplications = report.applications.total
       /\ inventory.summary.totalEstimatedFlows = report.flows.total
       /\ inventory.summary.totalEstimatedMonthlyMessages
            = report.messages.total
       /\ CONFIG.exportCsv =>
            /\ written[Len(written)].path
                 = <<"organization-consumption-summary.csv">>
            /\ written[Len(written)].content = report

\* a finished run with two applications, one of them with a non-numeric
\* flow estimate, and the reports written
C7_Witness ==
  /\ pc = "done"
  /\ CONFIG.exportCsv
  /\ inventory.summary.totalApplications = 2
  /\ inventory.summary.totalEstimatedFlows > 0
  /\ inventory.summary.totalEstimatedMonthlyMessages > 0
  /\ \E e \in StoredFlowEstimates : IsNaN(e.estimatedFlows)

\* the application of this iteration has been stored and its locals are
\* still in scope
Recorded == pc = "appLoop" /\ flowAnalysis # Null

LastStored ==
  environmentData.applications[Len(environmentData.applications)]

\* the reasons the claim lists for having no artifact
NoArtifactCause ==
  \/ ~CONFIG.downloadJars
  \/ appDetails = Null
  \/ appDetails.fileName = ""
  \/ appDetails.versionId = ""
  \/ armResponse \in {"noData", "error"}

MetadataOnly ==
  /\ LastStored.flowAnalysis = estimateBasedOnAppDetails(appDetails)
  /\ jarPath = ""
  /\ ~jarScan.attempted

\* C10 as stated: when downloads are disabled, the details are unavailable
\* or name no file or no version id, or the download request failed, the
\* stored flow estimate is estimateBasedOnAppDetails of the detail record
\* and no artifact analysis is attempted.
C10_ListedCausesMeanMetadata ==
  Recorded /\ NoArtifactCause => MetadataOnly

\* C10 amended: whenever downloadApplicationJar returned no artifact the
\* stored flow estimate is estimateBasedOnAppDetails of the detail record
\* and no artifact analysis is attempted; each listed reason leads there,
\* except that details without a version id still yield an artifact when a
\* file of that name is already in the jars directory.
C10_NoArtifactMeansMetadata ==
  Recorded =>
    /\ jarInfo = Null => MetadataOnly
    /\ NoArtifactCause /\ jarInfo # Null =>
         /\ ~jarInfo.downloaded
         /\ armResponse = ""
         /\ appDetails.versionId = ""

\* an application whose download request failed has been stored with a
\* pattern estimate
C10_Witness ==
  /\ Recorded
  /\ armResponse = "error"
  /\ jarInfo = Null
  /\ LastStored.flowAnalysis.source # "Default estimate (no metadata)"

(***************************************************************************)
(* Properties of estimateBasedOnAppDetails (SpecFlow): the estimates       *)
(* returned for a call without an artifact path.                           *)
(***************************************************************************)
\* the metadata estimator has answered for a detail record to which no
\* worker hint applies (no workers, or one worker of weight <= 0.1)
MetadataReturned ==
  /\ FlowReturned
  /\ jarPath = ""
  /\ appDetails # Null
  /\ appDetails.hasWorkers =>
       appDetails.amount <= 1 /\ appDetails.weightC <= 10

StartsWith(s, p) == Len(s) >= Len(p) /\ SubSeq(s, 1, Len(p)) = p

HasAny(name, tokens) == \E t \in tokens : Includes(name, t)

\* the API-type base and source tag the claim prescribes
ExpectedBase(d) ==
  LET file == toLowerCase(d.fileName)
      dom == toLowerCase(d.domain)
  IN IF d.fileName # ""
       THEN IF HasAny(file, {"eapi", "experience-api"})
              THEN [flows |-> 5, tag |-> "EAPI filename pattern"]
            ELSE IF HasAny(file, {"papi", "process-api"})
              THEN [flows |-> 7, tag |-> "PAPI filename pattern"]
            ELSE IF HasAny(file, {"sapi", "system-api"})
              THEN [flows |-> 3, tag |-> "SAPI filename pattern"]
            ELSE [flows |-> 2, tag |-> "Application metadata"]
     ELSE IF HasAny(dom, {"eapi", "experience"})
       THEN [flows |-> 5, tag |-> "EAPI domain pattern"]
     ELSE IF HasAny(dom, {"papi", "process"})
       THEN [flows |-> 7, tag |-> "PAPI domain pattern"]
     ELSE IF HasAny(dom, {"sapi", "system"})
       THEN [flows |-> 3, tag |-> "SAPI domain pattern"]
     ELSE [flows |-> 2, tag |-> "Application metadata"]

\* C11: the API-type base comes from the file name when there is one and
\* from the domain only otherwise, EAPI (5) before PAPI (7) before SAPI (3)
\* and 2 when none matches; the estimate is that base plus an integration
\* bonus of at most 2, and domain 'order-papi-database' without a file
\* name, with one worker of weight 0, gives 8.
C11_BaseFromFileNameThenDomain ==
  MetadataReturned =>
    /\ StartsWith(flowAnalysis.source, ExpectedBase(appDetails).tag)
    /\ flowAnalysis.estimatedFlows - ExpectedBase(appDetails).flows \in 0..2
    /\ ( /\ appDetails.fileName = ""
         /\ appDetails.domain = "order-papi-database" ) =>
         flowAnalysis.estimatedFlows = 8

C11_Witness ==
  /\ MetadataReturned
  /\ appDetails.fileName = ""
  /\ appDetails.domain = "order-papi-database"
  /\ appDetails.hasWorkers
  /\ appDetails.amount = 1
  /\ appDetails.weightC = 0
  /\ flowAnalysis.estimatedFlows = 8
  /\ flowAnalysis.source = "PAPI domain pattern + Database pattern"

\* the integration bonus the claim prescribes: the first match only
ExpectedBonus(name) ==
  IF HasAny(name, {"salesforce", "sfdc"})
    THEN [flows |-> 2, tag |-> " + Salesforce pattern"]
  ELSE IF HasAny(name, {"onbase", "database"})
    THEN [flows |-> 1, tag |-> " + Database pattern"]
  ELSE IF HasAny(name, {"splunk"})
    THEN [flows |-> 1, tag |-> " + Splunk pattern"]
  ELSE [flows |-> 0, tag |-> ""]

InspectedName(d) ==
  IF d.fileName # "" THEN toLowerCase(d.fileName) ELSE toLowerCase(d.domain)

RECURSIVE PreOrder(_, _)
RECURSIVE PreOrderEach(_, _)
PreOrder(node, parent) ==
  <<[id |-> node.id, parent |-> parent]>>
    \o PreOrderEach(node.subOrganizations, node.id)

PreOrderEach(subs, parent) ==
  IF subs = <<>> THEN <<>>
  ELSE PreOrder(Head(subs), parent) \o PreOrderEach(Tail(subs), parent)

\* C13 as stated: the list has one entry per node, in pre-order, and every
\* entry but the first has as parentId the id of the node it is nested
\* under.
C13_PreOrderWithParentIds ==
  pc = "flattened" =>
    LET nodes == PreOrder(hierarchy, "")
    IN /\ Len(businessGroups) = Len(nodes)
       /\ \A i \in 1..Len(nodes) :
            /\ businessGroups[i].id = nodes[i].id
            /\ i > 1 => businessGroups[i].parentId = nodes[i].parent

(***************************************************************************)
(* Properties of a run (Spec): failures and the end of the process.        *)
(***************************************************************************)
\* the awaited calls whose failure reaches the catch at line 1163
AbortingCalls == {"getAccessToken", "getRootOrganization", "getBusinessGroups"}

WrittenPaths == {written[i].path : i \in 1..Len(written)}

ReportsWritten ==
  /\ <<"complete-billable-consumption.json">> \in WrittenPaths
  /\ CONFIG.exportCsv =>
       /\ <<"billable-consumption-by-application.csv">> \in WrittenPaths
       /\ <<"billable-consumption-by-business-group.csv">> \in WrittenPaths
       /\ <<"organization-consumption-summary.csv">> \in WrittenPaths

\* C14 as stated: once the credentials are there, only the response to the
\* authentication call ends the run with process.exit(1).
C14_OnlyAuthenticationAborts ==
  [][pc' = "exit1" => pc \in {"validate", "getAccessToken"}]_vars

\* C14 amended: the run is aborted only by a failure of the authentication,
\* organization identity or business-group hierarchy request; after any
\* other request (environments, applications, application detail, artifact,
\* monitoring metrics) it goes on, and when it ends it has written its
\* reports.
C14_OnlyStartupCallsAbort ==
  [][/\ pc' = "exit1" => pc \in {"validate"} \cup AbortingCalls
     /\ pc' = "done" => ReportsWritten']_vars

\* a run that ended with its reports although the details of an
\* application and all of its metrics were unavailable
C14_Witness ==
  /\ pc = "done"
  /\ ReportsWritten
  /\ CONFIG.exportCsv
  /\ \E g \in 1..Len(inventory.businessGroups) :
       \E e \in 1..Len(inventory.businessGroups[g].environments) :
         LET apps == inventory.businessGroups[g].environments[e].applications
         IN \E a \in 1..Len(apps) :
              /\ apps[a].flowAnalysis.source
                   = "Default estimate (no metadata)"
              /\ apps[a].messageAnalysis.confidence = "none"

\* C15: without credentials the process exits with code 1 before any
\* request is issued; every exit with code 1 (a failed authentication
\* among them) happens before any file is written; the process ends
\* normally only after the aggregate inventory has been written.
C15_ExitCodes ==
  /\ ~CONFIG.credentials =>
       pc \in {"validate", "exit1"} /\ hierarchy = Null
  /\ pc = "exit1" => written = <<>>
  /\ pc = "done" =>
       <<"complete-billable-consumption.json">> \in WrittenPaths

C15_Witness ==
  /\ pc = "exit1"
  /\ ~CONFIG.credentials
  /\ written = <<>>

(***************************************************************************)
(* Properties of a run (Spec): listing requests that fail.                 *)
(***************************************************************************)
\* answers to the application listing that carry no recognised list
EmptyListings == {"error", "noData", "other"}

\* C16: after a failed environment listing the group has no environments,
\* and the next step records it in the inventory with zero environments,
\* leaves the summary alone and moves to the next group; after a failed
\* application listing, or an answer of unrecognised shape, the environment
\* has no applications, and the next step records it under its group with
\* zero applications, leaves the inventory alone and moves to the next
\* environment; the loops go on while groups and environments remain.
C16_FailedListingIsEmpty ==
  [][/\ (pc = "envLoop" /\ listing.environments = "error" /\ pc' # pc) =>
          /\ environments = <<>>
          /\ businessGroupData.id = businessGroups[gi].id
          /\ businessGroupData.environments = <<>>
          /\ inventory'.businessGroups
               = Append(inventory.businessGroups, businessGroupData)
          /\ inventory'.summary = inventory.summary
          /\ gi' = gi + 1
          /\ pc' = "groupLoop"
     /\ (pc = "groupLoop" /\ gi <= Len(businessGroups) /\ pc' # pc) =>
          pc' = "getEnvironments"
     /\ (pc = "appLoop" /\ listing.applications \in EmptyListings
           /\ pc' # pc) =>
          /\ applications = <<>>
          /\ environmentData.id = environments[ei].id
          /\ environmentData.applications = <<>>
          /\ businessGroupData'.environments
               = Append(businessGroupData.environments, environmentData)
          /\ inventory' = inventory
          /\ ei' = ei + 1
          /\ pc' = "envLoop"
     /\ (pc = "envLoop" /\ ei <= Len(environments) /\ pc' # pc) =>
          pc' = "getApplications"]_vars

\* the first group was recorded without environments, and the first
\* environment of the second group got an application list of unrecognised
\* shape while another environment is still to come
C16_Witness ==
  /\ pc = "appLoop"
  /\ listing.applications = "other"
  /\ applications = <<>>
  /\ gi = 2 /\ ei = 1 /\ Len(environments) = 2
  /\ Len(inventory.businessGroups) = 1
  /\ inventory.businessGroups[1].environments = <<>>

(***************************************************************************)
(* Properties of a run (Spec): getApplicationMonitoringData.               *)
(***************************************************************************)
\* the tier estimateMessageVolume stops at for the payloads fetched
ExpectedTier(fetched) ==
  IF fetched.flowMetrics # NoMetrics.flowMetrics
    THEN "Flow-level message metrics"
  ELSE IF fetched.messageData # NoMetrics.messageData
    THEN "Application-level message metrics"
  ELSE IF fetched.resourceData # NoMetrics.resourceData
    THEN "CPU usage heuristic"
  ELSE "No message data available"

\* C17: whatever the answer to one metric request, the step that takes it
\* sets that payload only (to the payload received, or to null), and the
\* next request is made; after the third the monitoring record holds the
\* three payloads as fetched, and the message estimate of the application
\* comes from the first tier whose payload is there.
C17_MetricFetchesAreIndependent ==
  [][/\ (pc = "metricsMessageCount" /\ pc' # pc) =>
          /\ pc' = "metricsResources"
          /\ metrics'.messageData
               \in {MessagePayload, NoMetrics.messageData}
          /\ metrics'.resourceData = metrics.resourceData
          /\ metrics'.flowMetrics = metrics.flowMetrics
     /\ (pc = "metricsResources" /\ pc' # pc) =>
          /\ pc' = "metricsFlows"
          /\ metrics'.resourceData
               \in {ResourcePayload, NoMetrics.resourceData}
          /\ metrics'.messageData = metrics.messageData
          /\ metrics'.flowMetrics = metrics.flowMetrics
     /\ (pc = "metricsFlows" /\ pc' # pc) =>
          /\ pc' = "analyzeJarForFlows"
          /\ metrics'.flowMetrics \in {FlowPayload, NoMetrics.flowMetrics}
          /\ metrics'.messageData = metrics.messageData
          /\ metrics'.resourceData = metrics.resourceData
          /\ monitoringData' # Null
          /\ monitoringData'.messageData = metrics'.messageData
          /\ monitoringData'.resourceData = metrics'.resourceData
          /\ monitoringData'.flowMetrics = metrics'.flowMetrics
     /\ (pc = "analyzed" /\ pc' # pc) =>
          messageAnalysis'.source = ExpectedTier(metrics)]_vars

\* the flow-level and message count requests failed, the resource payload
\* was fetched all the same, and the estimate came from the CPU tier
C17_Witness ==
  /\ messageAnalysis # Null
  /\ messageAnalysis.source = "CPU usage heuristic"
  /\ monitoringData # Null
  /\ monitoringData.messageData = NoMetrics.messageData
  /\ monitoringData.resourceData = ResourcePayload
  /\ monitoringData.flowMetrics = NoMetrics.flowMetrics

(***************************************************************************)
(* Properties of a run (Spec): the per-application files.                  *)
(***************************************************************************)
\* positions <<group, environment, application>> of the inventory
AppEntries ==
  {<<g, e, a>> \in (1..Len(inventory.businessGroups))
                     \X (1..2) \X (1..MaxTotalApps) :
     /\ e <= Len(inventory.businessGroups[g].environments)
     /\ a <= Len(inventory.businessGroups[g].environments[e].applications)}

EntryEnvironment(x) == inventory.businessGroups[x[1]].environments[x[2]]

EntryApplication(x) == EntryEnvironment(x).applications[x[3]]

\* line 1118
EntryPath(x) ==
  <<inventory.businessGroups[x[1]].id, EntryApplication(x).domain \o ".json">>

\* what the file at a path holds once the run is over: the last write wins
FileAt(p) ==
  LET last == CHOOSE i \in 1..Len(written) :
                /\ written[i].path = p
                /\ \A j \in (i + 1)..Len(written) : written[j].path # p
  IN written[last].content

\* C18 as stated: after a successful run no two applications of the
\* inventory share a file path, and the file of each application holds the
\* data of that application in its environment.
C18_OneFilePerApplication ==
  pc = "done" =>
    /\ \A x, y \in AppEntries : x # y => EntryPath(x) # EntryPath(y)
    /\ \A x \in AppEntries :
         /\ EntryPath(x) \in WrittenPaths
         /\ FileAt(EntryPath(x)).application = EntryApplication(x)
         /\ FileAt(EntryPath(x)).environment.id = EntryEnvironment(x).id

(***************************************************************************)
(* Properties of a run (Spec): the aggregation reports.                    *)
(***************************************************************************)
ProductionEntries == {x \in AppEntries : EntryEnvironment(x).isProduction}

GroupEntries(g) == {x \in AppEntries : x[1] = g}

\* C19: in the reports written by a finished run, the production and
\* sandbox application counts are the numbers of applications stored under
\* environments with and without the production flag; for applications,
\* flows and monthly messages the organization total is production plus
\* sandbox; each business group's total applications is its production
\* plus its sandbox applications; and the organization totals are the sums
\* of the per-business-group totals.
C19_ProductionSandboxPartition ==
  (pc = "done" /\ CONFIG.exportCsv) =>
    LET report == FileAt(<<"organization-consumption-summary.csv">>)
        rows == FileAt(<<"billable-consumption-by-business-group.csv">>)
    IN /\ report.applications.production = Cardinality(ProductionEntries)
       /\ report.applications.sandbox
            = Cardinality(AppEntries \ ProductionEntries)
       /\ report.applications.total
            = report.applications.production + report.applications.sandbox
       /\ report.flows.total
            = report.flows.production + report.flows.sandbox
       /\ report.messages.total
            = report.messages.production + report.messages.sandbox
       /\ Len(rows) = Len(inventory.businessGroups)
       /\ \A g \in 1..Len(rows) :
            /\ rows[g].totalApps
                 = rows[g].productionApps + rows[g].sandboxApps
            /\ rows[g].totalApps = Cardinality(GroupEntries(g))
            /\ rows[g].productionApps
                 = Cardinality(GroupEntries(g) \cap ProductionEntries)
       /\ report.applications.total
            = SumSeq([g \in 1..Len(rows) |-> rows[g].totalApps])
       /\ report.flows.total
            = SumSeq([g \in 1..Len(rows) |-> rows[g].totalFlows])
       /\ report.messages.total
            = SumSeq([g \in 1..Len(rows) |-> rows[g].totalMonthlyMessages])

\* reports of a run over two business groups, one with a production and
\* one with a sandbox application
C19_Witness ==
  /\ pc = "done"
  /\ CONFIG.exportCsv
  /\ LET report == FileAt(<<"organization-consumption-summary.csv">>)
         rows == FileAt(<<"billable-consumption-by-business-group.csv">>)
     IN /\ Len(rows) >= 2
        /\ rows[1].totalApps = 1
        /\ rows[2].totalApps = 1
        /\ report.applications.production = 1
        /\ report.applications.sandbox = 1
        /\ report.flows.production > 0
        /\ report.flows.sandbox > 0
        /\ report.messages.production > 0

(***************************************************************************)
(* Properties of analyzeJarForFlows (SpecFlow): the order of fallbacks.    *)
(***************************************************************************)
\* C20 as stated: analyzeJarForFlows always returns, and what it returns
\* is a numeric flow estimate from structured extraction, or else from the
\* size heuristic, or, only when the artifact's size was not obtained, from
\* the metadata estimator.
C20_AlwaysADegradedEstimate ==
  FlowReturned =>
    /\ ~IsNaN(flowAnalysis.estimatedFlows)
    /\ \/ /\ jarScan.attempted /\ jarScan.found > 0
          /\ flowAnalysis \in {XmlAnalysisResult(jarScan, jarScan.fileSize),
                               SizeHeuristicResult(jarScan.fileSize)}
       \/ /\ jarScan.attempted /\ jarScan.found = 0
          /\ flowAnalysis = SizeHeuristicResult(jarScan.fileSize)
       \/ /\ ~jarScan.attempted
          /\ flowAnalysis = estimateBasedOnAppDetails(appDetails)

(***************************************************************************)
(* Properties of analyzeJarForFlows (SpecFlow): the confidence levels.     *)
(***************************************************************************)
\* the estimate comes from the metadata estimator and an API-type or
\* integration naming pattern matched
FromMetadataPattern ==
  /\ ~jarScan.attempted
  /\ flowAnalysis = estimateBasedOnAppDetails(appDetails)
  /\ Includes(flowAnalysis.source, "pattern")

\* the estimate is the default of the metadata estimator
DefaultEstimate ==
  /\ ~jarScan.attempted
  /\ flowAnalysis.source
       \in {"Default estimate (no metadata)", "Application metadata"}

\* C21 as stated: a returned flow estimate has confidence 'high' when it
\* comes from the analysis of the JAR's configuration files, 'medium' when
\* it is derived from a metadata naming pattern, and 'low' when it is a
\* default estimate.
C21_ThreeConfidenceLevels ==
  FlowReturned =>
    /\ flowAnalysis.source = "XML analysis"
         => flowAnalysis.confidence = "high"
    /\ FromMetadataPattern => flowAnalysis.confidence = "medium"
    /\ DefaultEstimate => flowAnalysis.confidence = "low"

(***************************************************************************)
(* Properties of a run (Spec): the requests issued.                        *)
(***************************************************************************)
\* what a request is for: the run, a business group, an environment of a
\* group, or an application of an environment
RequestScope(r) ==
  IF r[1] \in AbortingCalls THEN <<r[1]>>
  ELSE IF r[1] = "getEnvironments" THEN <<r[1], r[2]>>
  ELSE IF r[1] = "getApplications" THEN <<r[1], r[2], r[3]>>
  ELSE r

TokenRequests == {i \in 1..Len(requests) : requests[i][1] = "getAccessToken"}

\* C22: no two requests of a run are for the same call in the same scope
\* (the run for the start-up calls, the business group for its
\* environments, the environment for its applications, the application for
\* its detail, artifact and three metric requests), and a run that has
\* started has issued exactly one token request.
C22_NoRequestIsRepeated ==
  /\ Cardinality({RequestScope(requests[i]) : i \in 1..Len(requests)})
       = Len(requests)
  /\ (CONFIG.credentials /\ pc # "validate") => Cardinality(TokenRequests) = 1
  /\ ~CONFIG.credentials => requests = <<>>

\* a finished run that asked for an artifact and for which the three
\* metric requests of some application all failed
C22_Witness ==
  /\ pc = "done"
  /\ inventory.summary.totalApplications = 2
  /\ \E i \in 1..Len(requests) : requests[i][1] = "downloadApplicationJar"
  /\ \E x \in AppEntries :
       EntryApplication(x).messageAnalysis.source
         = "No message data available"

(***************************************************************************)
(* Properties of a run (Spec): what is in flight.                          *)
(***************************************************************************)
\* network calls and subprocesses started and not yet completed
InFlight ==
  (IF pc \in RequestCalls THEN 1 ELSE 0)
    + (IF procs.awaited # "" THEN 1 ELSE 0)
    + procs.cleanup

\* C23 as stated: at most one network call or subprocess is in flight, and
\* outside the extraction steps of analyzeJarForFlows (so when it has
\* returned, and when the next application is processed) no subprocess the
\* run started is still running, the scratch-directory cleanup included.
C23_StrictlySequential ==
  /\ InFlight <= 1
  /\ pc \notin {"unzip", "find", "count"} => procs = NoProcs

(***************************************************************************)
(* Properties of a run (Spec): the order of the output files.              *)
(***************************************************************************)
AggregatePath == <<"complete-billable-consumption.json">>

CsvPaths ==
  {<<"billable-consumption-by-application.csv">>,
   <<"billable-consumption-by-business-group.csv">>,
   <<"organization-consumption-summary.csv">>}

\* the writes of per-application files: their path is <<group id, file>>
AppFileWrites == {i \in 1..Len(written) : Len(written[i].path) = 2}

\* the applications <<group, environment, application>> for which a
\* request has been issued
AppsRequested ==
  {<<requests[i][2], requests[i][3], requests[i][4]>> :
     i \in {k \in 1..Len(requests) :
              requests[k][1] \in {"getApplicationDetails",
                                  "downloadApplicationJar",
                                  "metricsMessageCount", "metricsResources",
                                  "metricsFlows"}}}

\* C24: every per-application file holds that application's two estimates,
\* and requests have been issued for at most one application whose file is
\* not written yet; the aggregate file comes after the file of every
\* application the run has asked about and holds the inventory; a CSV
\* report is written only with CONFIG.exportCsv and after the aggregate
\* file; and once the aggregate file is written, the path of every
\* application of the inventory has been written.
C24_OutputOrder ==
  /\ \A i \in AppFileWrites :
       /\ written[i].content.application.flowAnalysis # Null
       /\ written[i].content.application.messageAnalysis # Null
  /\ Cardinality(AppsRequested) - Cardinality(AppFileWrites) \in {0, 1}
  /\ \A i \in 1..Len(written) :
       /\ written[i].path = AggregatePath =>
            /\ 1..(i - 1) = AppFileWrites
            /\ Cardinality(AppsRequested) = i - 1
            /\ written[i].content = inventory
       /\ written[i].path \in CsvPaths =>
            /\ CONFIG.exportCsv
            /\ \E j \in 1..(i - 1) : written[j].path = AggregatePath
  /\ AggregatePath \in WrittenPaths =>
       \A x \in AppEntries : EntryPath(x) \in WrittenPaths

\* a finished run that wrote two application files, the aggregate file
\* and the three CSV reports, in this order
C24_Witness ==
  /\ pc = "done"
  /\ Len(written) = 6
  /\ AppFileWrites = {1, 2}
  /\ written[3].path = AggregatePath
  /\ \A i \in 4..6 : written[i].path \in CsvPaths

(***************************************************************************)
(* Properties of a run (Spec): the inventory mirrors discovery.            *)
(***************************************************************************)
\* the entry stored for a listed environment, whatever its applications
SameEnvironment(entry, env) ==
  /\ entry.id = env.id /\ entry.name = env.name
  /\ entry.type = env.type /\ entry.isProduction = env.isProduction

\* the entry stored for a listed application, with both estimates
SameApplication(entry, app) ==
  /\ entry.domain = app.domain /\ entry.status = app.status
  /\ entry.fileName = app.fileName
  /\ entry.flowAnalysis # Null
  /\ entry.messageAnalysis # Null

\* C25: an application entry is added to its environment only as the next
\* listed application, with both estimates; an environment entry is added
\* to its group only as the next listed environment and with one entry per
\* listed application, in listing order; a group entry is added to the
\* inventory only as the next group of the flattened list and with one
\* entry per listed environment, in listing order; and when the run ends
\* the inventory has one entry per group of the flattened list, in order.
C25_InventoryMirrorsDiscovery ==
  [][/\ (environmentData # Null /\ environmentData' # Null
           /\ environmentData' # environmentData) =>
          /\ Len(environmentData.applications) = ai - 1
          /\ Len(environmentData'.applications) = ai
          /\ SubSeq(environmentData'.applications, 1, ai - 1)
               = environmentData.applications
          /\ SameApplication(environmentData'.applications[ai],
                             applications[ai])
     /\ (businessGroupData # Null /\ businessGroupData' # Null
           /\ businessGroupData' # businessGroupData) =>
          /\ businessGroupData'.environments
               = Append(businessGroupData.environments, environmentData)
          /\ Len(businessGroupData.environments) = ei - 1
          /\ SameEnvironment(environmentData, environments[ei])
          /\ Len(environmentData.applications) = Len(applications)
          /\ \A a \in 1..Len(applications) :
               SameApplication(environmentData.applications[a],
                               applications[a])
     /\ inventory'.businessGroups # inventory.businessGroups =>
          /\ inventory'.businessGroups
               = Append(inventory.businessGroups, businessGroupData)
          /\ Len(inventory.businessGroups) = gi - 1
          /\ businessGroupData.id = businessGroups[gi].id
          /\ businessGroupData.name = businessGroups[gi].name
          /\ businessGroupData.parentId = businessGroups[gi].parentId
          /\ Len(businessGroupData.environments) = Len(environments)
          /\ \A e \in 1..Len(environments) :
               SameEnvironment(businessGroupData.environments[e],
                               environments[e])
     /\ pc' = "done" =>
          /\ businessGroups' = flattenBusinessGroups(hierarchy')
          /\ Len(inventory'.businessGroups) = Len(businessGroups')
          /\ \A g \in 1..Len(businessGroups') :
               inventory'.businessGroups[g].id = businessGroups'[g].id]_vars

\* a finished run whose inventory holds a group without environments and
\* a group with two environments, one with an application and one without
C25_Witness ==
  /\ pc = "done"
  /\ Len(inventory.businessGroups) = Len(businessGroups)
  /\ \E g, h \in 1..Len(inventory.businessGroups) :
       /\ inventory.businessGroups[g].environments = <<>>
       /\ Len(inventory.businessGroups[h].environments) = 2
       /\ \E e, f \in 1..2 :
            /\ inventory.businessGroups[h].environments[e].applications # <<>>
            /\ inventory.businessGroups[h].environments[f].applications = <<>>

(***************************************************************************)
(* Properties of a run (Spec): an application whose detail request fails.  *)
(***************************************************************************)
\* the application stored last, as it was listed
LastListed == applications[ai - 1]

\* C26: when getApplicationDetails returned null for an application, the
\* flow estimate stored for it is estimatedFlows 2, confidence 'low',
\* source 'Default estimate (no metadata)', whatever its listing says, and
\* no artifact request was issued for it.
C26_NoDetailsMeansDefault ==
  (Recorded /\ appDetails = Null) =>
    /\ LastStored.domain = LastListed.domain
    /\ LastStored.flowAnalysis
         = [estimatedFlows |-> 2, confidence |-> "low",
            source |-> "Default estimate (no metadata)"]
    /\ jarInfo = Null
    /\ armResponse = ""
    /\ \A i \in 1..Len(requests) :
         requests[i] # <<"downloadApplicationJar", gi, ei, ai - 1>>

\* the detail request failed for an application listed with a PAPI file
\* name and two workers, in a run that downloads artifacts
C26_Witness ==
  /\ Recorded
  /\ appDetails = Null
  /\ CONFIG.downloadJars
  /\ LastListed.fileName = "orders-papi-1.0.jar"
  /\ LastListed.numberOfWorkers = 2
  /\ LastStored.flowAnalysis.estimatedFlows = 2

=============================================================================
